---------------------------- MODULE Spec2Model ----------------------------
(***************************************************************************)
(* Model of the reSID waveform generator (src/resid/wave.h) and of the     *)
(* SIDOsc unit generator that owns three of them                           *)
(* (src/plugins/SIDOsc/SIDOsc.cpp).                                        *)
(*                                                                         *)
(* A generator is a record with the fields of class WaveformGenerator.     *)
(* Every inline member function of wave.h is an operator from generator    *)
(* records to generator records; the ring of three voices is the variable  *)
(* voice, indexed 0..2, with sync_source / sync_dest held as indices.      *)
(*                                                                         *)
(* reg24 / reg12 are unsigned int in the source.  All values that the      *)
(* modelled code keeps are below 2^24, so complements are taken at width   *)
(* 24 (the bits above bit 23 of ~x are always and'ed away by the source).  *)
(***************************************************************************)
EXTENDS Integers, Sequences, FiniteSets, TLC

VARIABLES
    voice,      \* [0..2 -> generator record]: SIDOsc::voice[v].wave
    last,       \* the operation performed by the last step (history)
    cycles,     \* number of steps taken so far
    limit,      \* number of steps the specification explores
    start,      \* the ring as it was in the initial state (history)
    snap,       \* the ring as it was when the current cycle began (history)
    twin,       \* generator 0 of start, advanced by one clock(delta_t) call
    osc,        \* SIDOsc's own members and the position inside next()
    hist,       \* what earlier steps of the run did (history)
    loop        \* locals of a clock(delta_t) call that is under way

vars == <<voice, last, cycles, limit, start, snap, twin, osc, hist, loop>>

---------------------------------------------------------------------------
\* Bit arithmetic on naturals.

RECURSIVE AndBits(_, _)
AndBits(a, b) ==
    IF a = 0 \/ b = 0 THEN 0
    ELSE (a % 2) * (b % 2) + 2 * AndBits(a \div 2, b \div 2)

\* a & b for two 4-bit values, tabulated at index a * 16 + b.
AndNibble == [i \in 0 .. 255 |-> AndBits(i \div 16, i % 16)]

\* a & b, four bits at a time.
RECURSIVE BitAnd(_, _)
BitAnd(a, b) ==
    IF a = 0 \/ b = 0 THEN 0
    ELSE AndNibble[(a % 16) * 16 + (b % 16)]
         + 16 * BitAnd(a \div 16, b \div 16)

BitOr(a, b) == a + b - BitAnd(a, b)

BitXor(a, b) == a + b - 2 * BitAnd(a, b)

Bit(x, k) == (x \div (2 ^ k)) % 2

\* x & (1 << k)
MaskBit(x, k) == Bit(x, k) * 2 ^ k

\* x & ((1 << n) - 1)
Low(x, n) == x % (2 ^ n)

\* Width of the accumulator, of the shift register and of the waveform output.
AccBits == 24
ShiftBits == 23
WaveBits == 12

AccMod == 2 ^ AccBits
\* 0xffffff, 0x7fffff, 0xfff
AccMask == AccMod - 1
ShiftMask == 2 ^ ShiftBits - 1
WaveMask == 2 ^ WaveBits - 1

\* ~x, for x below 2^24, restricted to the 24 bits the source goes on to use.
Not24(x) == AccMask - x

\* enum chip_model { MOS6581, MOS8580 }
MOS6581 == 0
MOS8580 == 1

---------------------------------------------------------------------------
\* Noise shift register.

\* WaveformGenerator::set_noise_output
set_noise_output(g) ==
    LET s == g.shift_register
        \* the eight masked bits are disjoint, so | is +
        n == (MaskBit(s, 20) \div 2^9) + (MaskBit(s, 18) \div 2^8)
             + (MaskBit(s, 14) \div 2^5) + (MaskBit(s, 11) \div 2^3)
             + (MaskBit(s, 9) \div 2^2) + (MaskBit(s, 5) * 2^1)
             + (MaskBit(s, 2) * 2^3) + (MaskBit(s, 0) * 2^4)
    IN  [g EXCEPT !.noise_output = n,
                  !.no_noise_or_noise_output = BitOr(g.no_noise, n)]

\* clock_shift_register without feedback: bit 0 is always 0.
clock_shift_register_no_feedback(g) ==
    set_noise_output([g EXCEPT !.shift_register =
                                  Low(g.shift_register * 2, ShiftBits)])

\* clock_shift_register feeding back the complement of bit 22 XOR bit 17.
clock_shift_register_xnor(g) ==
    LET s    == g.shift_register
        bit0 == (Bit(s, 22) + Bit(s, 17) + 1) % 2
    IN  set_noise_output([g EXCEPT !.shift_register = Low(s * 2 + bit0, ShiftBits)])

\* clock_shift_register feeding a 1 into bit 0 at every shift.
clock_shift_register_feed_one(g) ==
    set_noise_output([g EXCEPT !.shift_register =
                                  Low(g.shift_register * 2 + 1, ShiftBits)])

\* clock_shift_register taking the feedback from bit 16 instead of bit 17.
clock_shift_register_tap16(g) ==
    LET s    == g.shift_register
        bit0 == (Bit(s, 22) + Bit(s, 16)) % 2
    IN  set_noise_output([g EXCEPT !.shift_register = Low(s * 2 + bit0, ShiftBits)])

\* clock_shift_register shifting right instead of left.
clock_shift_register_right(g) ==
    LET s    == g.shift_register
        bit0 == (Bit(s, 22) + Bit(s, 17)) % 2
    IN  set_noise_output([g EXCEPT !.shift_register = (s \div 2) + bit0 * 2^22])

\* WaveformGenerator::clock_shift_register
clock_shift_register(g) ==
    LET s    == g.shift_register
        bit0 == (Bit(s, 22) + Bit(s, 17)) % 2
        \* (s << 1) has bit 0 clear, so | bit0 is + bit0
        s1   == Low(s * 2 + bit0, ShiftBits)
    IN  set_noise_output([g EXCEPT !.shift_register = s1])

\* write_shift_register and'ing the register only, noise_output left as it is.
write_shift_register_register_only(g) ==
    LET w    == g.waveform_output
        taps == 2^20 + 2^18 + 2^14 + 2^11 + 2^9 + 2^5 + 2^2 + 2^0
        m    == Not24(taps)
                + (MaskBit(w, 11) * 2^9) + (MaskBit(w, 10) * 2^8)
                + (MaskBit(w, 9) * 2^5) + (MaskBit(w, 8) * 2^3)
                + (MaskBit(w, 7) * 2^2) + (MaskBit(w, 6) \div 2^1)
                + (MaskBit(w, 5) \div 2^3) + (MaskBit(w, 4) \div 2^4)
    IN  [g EXCEPT !.shift_register = BitAnd(g.shift_register, m)]

\* WaveformGenerator::write_shift_register
write_shift_register(g) ==
    LET w    == g.waveform_output
        taps == 2^20 + 2^18 + 2^14 + 2^11 + 2^9 + 2^5 + 2^2 + 2^0
        \* the moved output bits land on the tap positions, which ~taps
        \* leaves clear, so | is +
        m    == Not24(taps)
                + (MaskBit(w, 11) * 2^9) + (MaskBit(w, 10) * 2^8)
                + (MaskBit(w, 9) * 2^5) + (MaskBit(w, 8) * 2^3)
                + (MaskBit(w, 7) * 2^2) + (MaskBit(w, 6) \div 2^1)
                + (MaskBit(w, 5) \div 2^3) + (MaskBit(w, 4) \div 2^4)
        n    == BitAnd(g.noise_output, w)
    IN  [g EXCEPT !.shift_register = BitAnd(g.shift_register, m),
                  !.noise_output = n,
                  !.no_noise_or_noise_output = BitOr(g.no_noise, n)]

\* WaveformGenerator::reset_shift_register
reset_shift_register(g) ==
    set_noise_output([g EXCEPT !.shift_register = ShiftMask,
                               !.shift_register_reset = 0])

---------------------------------------------------------------------------
\* Clocking.

\* clock_test without "pulse_output = 0xfff".
clock_test_pulse_kept(g) ==
    IF g.shift_register_reset = 1
    THEN reset_shift_register(g)
    ELSE [g EXCEPT !.shift_register_reset = IF @ # 0 THEN @ - 1 ELSE @]

\* clock_test counting down without the call of reset_shift_register().
clock_test_no_reset(g) ==
    [g EXCEPT !.shift_register_reset = IF @ # 0 THEN @ - 1 ELSE @,
              !.pulse_output = WaveMask]

\* WaveformGenerator::clock(), the branch taken when test is set.
clock_test(g) ==
    LET g1 == IF g.shift_register_reset # 0
              THEN LET r == g.shift_register_reset - 1
                   IN  IF r = 0
                       THEN reset_shift_register(
                                [g EXCEPT !.shift_register_reset = r])
                       ELSE [g EXCEPT !.shift_register_reset = r]
              ELSE g
    IN  [g1 EXCEPT !.pulse_output = WaveMask]

\* clock_run with the "& 0xffffff" of accumulator_next left out.
clock_run_unmasked(g) ==
    LET accumulator_next     == g.accumulator + g.freq
        accumulator_bits_set == BitAnd(Not24(g.accumulator),
                                       Low(accumulator_next, AccBits))
    IN  [g EXCEPT !.accumulator = accumulator_next,
                  !.msb_rising = (MaskBit(accumulator_bits_set, 23) # 0)]

\* clock_run arming the shift pipeline with 1 instead of 2.
clock_run_armed_short(g) ==
    LET accumulator_next     == Low(g.accumulator + g.freq, AccBits)
        accumulator_bits_set == BitAnd(Not24(g.accumulator), accumulator_next)
        g1 == [g EXCEPT !.accumulator = accumulator_next,
                        !.msb_rising = (MaskBit(accumulator_bits_set, 23) # 0)]
    IN  IF MaskBit(accumulator_bits_set, 19) # 0
        THEN [g1 EXCEPT !.shift_pipeline = 1]
        ELSE IF g1.shift_pipeline # 0
             THEN clock_shift_register([g1 EXCEPT !.shift_pipeline = 0])
             ELSE g1

\* WaveformGenerator::clock(), the branch taken when test is clear.
clock_run(g) ==
    LET accumulator_next     == Low(g.accumulator + g.freq, AccBits)
        accumulator_bits_set == BitAnd(Not24(g.accumulator), accumulator_next)
        g1 == [g EXCEPT !.accumulator = accumulator_next,
                        !.msb_rising = (MaskBit(accumulator_bits_set, 23) # 0)]
    IN  IF MaskBit(accumulator_bits_set, 19) # 0
        THEN [g1 EXCEPT !.shift_pipeline = 2]
        ELSE IF g1.shift_pipeline # 0
             THEN LET p  == g1.shift_pipeline - 1
                      g2 == [g1 EXCEPT !.shift_pipeline = p]
                  IN  IF p = 0 THEN clock_shift_register(g2) ELSE g2
             ELSE g1

\* WaveformGenerator::clock()
clock(g) == IF g.test # 0 THEN clock_test(g) ELSE clock_run(g)

\* shift_loop shifting once per whole shift period only: the check of the
\* last, partial period is left out.
RECURSIVE shift_loop_whole_periods(_, _, _)
shift_loop_whole_periods(g, da, sp) ==
    IF da < sp THEN g
    ELSE shift_loop_whole_periods(clock_shift_register(g), da - sp, sp)

\* The while loop of WaveformGenerator::clock(cycle_count): g is the generator
\* with the new accumulator, da is delta_accumulator, sp is shift_period.
\* accumulator - shift_period is unsigned arithmetic of which only bit 19 is
\* read; shift_period never exceeds 2^20, so the difference is taken mod 2^24.
RECURSIVE shift_loop(_, _, _)
shift_loop(g, da, sp) ==
    IF da = 0 THEN g
    ELSE IF da < sp
         THEN LET before == Bit((g.accumulator - da + AccMod) % AccMod, 19)
                  after  == Bit(g.accumulator, 19)
                  stop   == IF da <= \h080000
                            THEN before = 1 \/ after = 0
                            ELSE before = 1 /\ after = 0
              IN  IF stop THEN g
                  ELSE shift_loop(clock_shift_register(g), 0, da)
         ELSE shift_loop(clock_shift_register(g), da - sp, sp)

\* clock_delta_test with the reset on "shift_register_reset <= 0" left out.
clock_delta_test_unclamped(g, delta_t) ==
    [g EXCEPT !.shift_register_reset =
                  IF @ # 0 THEN @ - delta_t ELSE @,
              !.pulse_output = WaveMask]

\* WaveformGenerator::clock(cycle_count delta_t), the branch taken when test
\* is set.
clock_delta_test(g, delta_t) ==
    LET g1 == IF g.shift_register_reset # 0
              THEN LET r == g.shift_register_reset - delta_t
                   IN  IF r <= 0
                       THEN reset_shift_register(
                                [g EXCEPT !.shift_register_reset = r])
                       ELSE [g EXCEPT !.shift_register_reset = r]
              ELSE g
    IN  [g1 EXCEPT !.pulse_output = WaveMask]

\* clock_delta_run adding freq once, whatever delta_t is.
clock_delta_run_once(g, delta_t) ==
    [g EXCEPT !.accumulator = Low(g.accumulator + g.freq, AccBits)]

\* WaveformGenerator::clock(cycle_count delta_t), the branch taken when test
\* is clear.  delta_t * freq stays below 2^31 for the values explored.
clock_delta_run(g, delta_t) ==
    LET delta_accumulator    == delta_t * g.freq
        accumulator_next     == Low(g.accumulator + delta_accumulator, AccBits)
        accumulator_bits_set == BitAnd(Not24(g.accumulator), accumulator_next)
        g1 == [g EXCEPT !.accumulator = accumulator_next,
                        !.msb_rising = (MaskBit(accumulator_bits_set, 23) # 0)]
        g2 == shift_loop(g1, delta_accumulator, \h100000)
    IN  [g2 EXCEPT !.pulse_output =
             IF g2.accumulator \div 2^12 >= g2.pw THEN WaveMask ELSE 0]

\* WaveformGenerator::clock(cycle_count delta_t)
clock_delta(g, delta_t) ==
    IF g.test # 0 THEN clock_delta_test(g, delta_t) ELSE clock_delta_run(g, delta_t)

---------------------------------------------------------------------------
\* Waveform tables (model_wave, filled by the generator's constructor and by
\* the sampled OSC3 data) and output computation.

\* Stand-ins for the sampled combined-waveform table entries: 8-bit OSC3
\* samples held in the upper 8 of 12 bits.
SampleVals == {\h000, \h010, \h7f0, \hf00, \hff0}

\* The simple (non-sampled) tables: index 0 and 4 are masks of all ones,
\* 1 is the triangle, 2 the sawtooth.  ix is the 12-bit table index.
triangle(ix) ==
    LET acc == ix * 2^12
        inv == IF Bit(acc, 23) = 1 THEN Not24(acc) ELSE acc
    IN  (Low(inv, 23) \div 2^12) * 2

\* wave[ix], where wave = model_wave[sid_model][waveform & 0x7]; tv is the
\* sampled entry at that index when the table is a sampled one.
wave(g, ix, tv) ==
    LET t == BitAnd(g.waveform, 7)
    IN  CASE t = 0 -> WaveMask
          [] t = 1 -> triangle(ix)
          [] t = 2 -> ix
          [] t = 4 -> WaveMask
          [] OTHER -> tv

\* The sampled entries the lookup of generator g may return.
TableInputs(g) ==
    IF BitAnd(g.waveform, 7) \in {3, 5, 6, 7} THEN SampleVals ELSE {0}

\* noise_pulse6581 with the leading "noise &" left out.
noise_pulse6581_shifted(noise) ==
    IF noise < \hf00 THEN 0
    ELSE BitAnd(noise * 2, noise * 4)

\* noise_pulse6581
noise_pulse6581(noise) ==
    IF noise < \hf00 THEN 0
    ELSE BitAnd(noise, BitAnd(noise * 2, noise * 4))

\* noise_pulse8580
noise_pulse8580(noise) ==
    IF noise < \hfc0 THEN BitAnd(noise, noise * 2) ELSE \hfc0

\* The table index of set_waveform_output: src_acc is sync_source->accumulator.
wave_index(g, src_acc) ==
    BitXor(g.accumulator, BitAnd(Not24(src_acc), g.ring_msb_mask)) \div 2^12

\* The new pulse level pushed at the end of set_waveform_output().
pulse_level(g) ==
    IF g.accumulator \div 2^12 >= g.pw THEN WaveMask ELSE 0

\* set_waveform_output_on masking with pulse_output alone instead of
\* (no_pulse | pulse_output), and without the combined-waveform extras.
set_waveform_output_on_pulsed(g, src_acc, tv) ==
    LET w == BitAnd(BitAnd(wave(g, wave_index(g, src_acc), tv), g.pulse_output),
                    g.no_noise_or_noise_output)
    IN  [g EXCEPT !.waveform_output = w, !.osc3 = w]

\* set_waveform_output_on writing back only when no shift is pending at all.
set_waveform_output_on_idle_only(g, src_acc, tv) ==
    LET ix   == wave_index(g, src_acc)
        mask == BitAnd(BitOr(g.no_pulse, g.pulse_output),
                       g.no_noise_or_noise_output)
        w0   == BitAnd(wave(g, ix, tv), mask)
        w    == IF BitAnd(g.waveform, \hc) = \hc
                THEN IF g.sid_model = MOS6581
                     THEN noise_pulse6581(w0) ELSE noise_pulse8580(w0)
                ELSE w0
        g1   == IF BitAnd(g.waveform, 3) # 0 /\ g.sid_model = MOS8580
                THEN [g EXCEPT !.waveform_output = w,
                               !.osc3 = BitAnd(g.tri_saw_pipeline, mask),
                               !.tri_saw_pipeline = wave(g, ix, tv)]
                ELSE [g EXCEPT !.waveform_output = w, !.osc3 = w]
        g2   == IF BitAnd(g.waveform, 2) # 0 /\ BitAnd(g.waveform, \hd) # 0
                   /\ g.sid_model = MOS6581
                THEN [g1 EXCEPT !.accumulator =
                         BitAnd(g1.accumulator, BitOr(w * 2^12, \h7fffff))]
                ELSE g1
    IN  IF g.waveform > 8 /\ g.test = 0 /\ g.shift_pipeline = 0
        THEN write_shift_register(g2) ELSE g2

\* set_waveform_output_on latching the current output into osc3 on the 8580
\* too.
set_waveform_output_on_osc3_now(g, src_acc, tv) ==
    LET ix   == wave_index(g, src_acc)
        mask == BitAnd(BitOr(g.no_pulse, g.pulse_output),
                       g.no_noise_or_noise_output)
        w0   == BitAnd(wave(g, ix, tv), mask)
        w    == IF BitAnd(g.waveform, \hc) = \hc
                THEN IF g.sid_model = MOS6581
                     THEN noise_pulse6581(w0) ELSE noise_pulse8580(w0)
                ELSE w0
        g1   == IF BitAnd(g.waveform, 3) # 0 /\ g.sid_model = MOS8580
                THEN [g EXCEPT !.waveform_output = w,
                               !.osc3 = w,
                               !.tri_saw_pipeline = wave(g, ix, tv)]
                ELSE [g EXCEPT !.waveform_output = w, !.osc3 = w]
        g2   == IF BitAnd(g.waveform, 2) # 0 /\ BitAnd(g.waveform, \hd) # 0
                   /\ g.sid_model = MOS6581
                THEN [g1 EXCEPT !.accumulator =
                         BitAnd(g1.accumulator, BitOr(w * 2^12, \h7fffff))]
                ELSE g1
    IN  IF g.waveform > 8 /\ g.test = 0 /\ g.shift_pipeline # 1
        THEN write_shift_register(g2) ELSE g2

\* set_waveform_output_on delaying osc3 on both chip models.
set_waveform_output_on_delay_always(g, src_acc, tv) ==
    LET ix   == wave_index(g, src_acc)
        mask == BitAnd(BitOr(g.no_pulse, g.pulse_output),
                       g.no_noise_or_noise_output)
        w0   == BitAnd(wave(g, ix, tv), mask)
        w    == IF BitAnd(g.waveform, \hc) = \hc
                THEN IF g.sid_model = MOS6581
                     THEN noise_pulse6581(w0) ELSE noise_pulse8580(w0)
                ELSE w0
        g1   == IF BitAnd(g.waveform, 3) # 0
                THEN [g EXCEPT !.waveform_output = w,
                               !.osc3 = BitAnd(g.tri_saw_pipeline, mask),
                               !.tri_saw_pipeline = wave(g, ix, tv)]
                ELSE [g EXCEPT !.waveform_output = w, !.osc3 = w]
        g2   == IF BitAnd(g.waveform, 2) # 0 /\ BitAnd(g.waveform, \hd) # 0
                   /\ g.sid_model = MOS6581
                THEN [g1 EXCEPT !.accumulator =
                         BitAnd(g1.accumulator, BitOr(w * 2^12, \h7fffff))]
                ELSE g1
    IN  IF g.waveform > 8 /\ g.test = 0 /\ g.shift_pipeline # 1
        THEN write_shift_register(g2) ELSE g2

\* WaveformGenerator::set_waveform_output(), waveform # 0.
set_waveform_output_on(g, src_acc, tv) ==
    LET ix   == wave_index(g, src_acc)
        mask == BitAnd(BitOr(g.no_pulse, g.pulse_output),
                       g.no_noise_or_noise_output)
        w0   == BitAnd(wave(g, ix, tv), mask)
        w    == IF BitAnd(g.waveform, \hc) = \hc
                THEN IF g.sid_model = MOS6581
                     THEN noise_pulse6581(w0) ELSE noise_pulse8580(w0)
                ELSE w0
        g1   == IF BitAnd(g.waveform, 3) # 0 /\ g.sid_model = MOS8580
                THEN [g EXCEPT !.waveform_output = w,
                               !.osc3 = BitAnd(g.tri_saw_pipeline, mask),
                               !.tri_saw_pipeline = wave(g, ix, tv)]
                ELSE [g EXCEPT !.waveform_output = w, !.osc3 = w]
        g2   == IF BitAnd(g.waveform, 2) # 0 /\ BitAnd(g.waveform, \hd) # 0
                   /\ g.sid_model = MOS6581
                THEN [g1 EXCEPT !.accumulator =
                         BitAnd(g1.accumulator, BitOr(w * 2^12, \h7fffff))]
                ELSE g1
    IN  IF g.waveform > 8 /\ g.test = 0 /\ g.shift_pipeline # 1
        THEN write_shift_register(g2) ELSE g2

\* set_waveform_output_off dropping the output as soon as it is called.
set_waveform_output_off_at_once(g) ==
    [g EXCEPT !.floating_output_ttl = IF @ # 0 THEN @ - 1 ELSE @,
              !.osc3 = 0, !.waveform_output = 0]

\* WaveformGenerator::set_waveform_output(), waveform = 0: age the floating
\* DAC input.
set_waveform_output_off(g) ==
    IF g.floating_output_ttl # 0
    THEN LET t == g.floating_output_ttl - 1
         IN  IF t = 0
             THEN [g EXCEPT !.floating_output_ttl = t,
                            !.osc3 = 0, !.waveform_output = 0]
             ELSE [g EXCEPT !.floating_output_ttl = t]
    ELSE g

\* set_waveform_output pushing the pulse level only while a waveform is
\* selected.
set_waveform_output_pulse_if_on(g, src_acc, tv) ==
    IF g.waveform # 0
    THEN LET g1 == set_waveform_output_on(g, src_acc, tv)
         IN  [g1 EXCEPT !.pulse_output = pulse_level(g1)]
    ELSE set_waveform_output_off(g)

\* WaveformGenerator::set_waveform_output()
set_waveform_output(g, src_acc, tv) ==
    LET g1 == IF g.waveform # 0
              THEN set_waveform_output_on(g, src_acc, tv)
              ELSE set_waveform_output_off(g)
    IN  [g1 EXCEPT !.pulse_output = pulse_level(g1)]

\* set_waveform_output_delta driving the accumulator top bit on both chip
\* models.
set_waveform_output_delta_any_model(g, delta_t, src_acc, tv) ==
    IF g.waveform # 0
    THEN LET ix == wave_index(g, src_acc)
             w  == BitAnd(BitAnd(wave(g, ix, tv),
                                 BitOr(g.no_pulse, g.pulse_output)),
                          g.no_noise_or_noise_output)
             g1 == [g EXCEPT !.waveform_output = w, !.osc3 = w]
             g2 == IF BitAnd(g.waveform, 2) # 0 /\ BitAnd(g.waveform, \hd) # 0
                   THEN [g1 EXCEPT !.accumulator =
                            BitAnd(g1.accumulator, BitOr(w * 2^12, \h7fffff))]
                   ELSE g1
         IN  IF g.waveform > 8 /\ g.test = 0
             THEN write_shift_register(g2) ELSE g2
    ELSE IF g.floating_output_ttl # 0
         THEN LET t == g.floating_output_ttl - delta_t
              IN  IF t <= 0
                  THEN [g EXCEPT !.floating_output_ttl = 0,
                                 !.osc3 = 0, !.waveform_output = 0]
                  ELSE [g EXCEPT !.floating_output_ttl = t]
         ELSE g

\* WaveformGenerator::set_waveform_output(cycle_count delta_t)
set_waveform_output_delta(g, delta_t, src_acc, tv) ==
    IF g.waveform # 0
    THEN LET ix == wave_index(g, src_acc)
             w  == BitAnd(BitAnd(wave(g, ix, tv),
                                 BitOr(g.no_pulse, g.pulse_output)),
                          g.no_noise_or_noise_output)
             g1 == [g EXCEPT !.waveform_output = w, !.osc3 = w]
             g2 == IF BitAnd(g.waveform, 2) # 0 /\ BitAnd(g.waveform, \hd) # 0
                      /\ g.sid_model = MOS6581
                   THEN [g1 EXCEPT !.accumulator =
                            BitAnd(g1.accumulator, BitOr(w * 2^12, \h7fffff))]
                   ELSE g1
         IN  IF g.waveform > 8 /\ g.test = 0
             THEN write_shift_register(g2) ELSE g2
    ELSE IF g.floating_output_ttl # 0
         THEN LET t == g.floating_output_ttl - delta_t
              IN  IF t <= 0
                  THEN [g EXCEPT !.floating_output_ttl = 0,
                                 !.osc3 = 0, !.waveform_output = 0]
                  ELSE [g EXCEPT !.floating_output_ttl = t]
         ELSE g

\* synchronize resetting its destination whether or not the destination has
\* its sync bit set.
synchronize_any_dest(vs, i) ==
    LET g == vs[i]
    IN  IF g.msb_rising
           /\ ~(g.sync # 0 /\ vs[g.sync_source].msb_rising)
        THEN [vs EXCEPT ![g.sync_dest].accumulator = 0]
        ELSE vs

\* synchronize that also takes back the msb_rising flag it has acted on.
synchronize_consuming(vs, i) ==
    LET g == vs[i]
    IN  IF g.msb_rising /\ vs[g.sync_dest].sync # 0
           /\ ~(g.sync # 0 /\ vs[g.sync_source].msb_rising)
        THEN [vs EXCEPT ![g.sync_dest].accumulator = 0,
                        ![i].msb_rising = FALSE]
        ELSE [vs EXCEPT ![i].msb_rising = FALSE]

\* WaveformGenerator::synchronize(), as its effect on the ring vs: generator
\* i may clear the accumulator of its sync destination.
synchronize(vs, i) ==
    LET g == vs[i]
    IN  IF g.msb_rising /\ vs[g.sync_dest].sync # 0
           /\ ~(g.sync # 0 /\ vs[g.sync_source].msb_rising)
        THEN [vs EXCEPT ![g.sync_dest].accumulator = 0]
        ELSE vs

---------------------------------------------------------------------------
\* Construction and register writes (wave.cc, which is not among the sources: the
\* state they establish is taken from the specification and from the comments
\* of wave.h).

Voices == 0 .. 2

\* A reference that has not been wired.
NullRef == 0 - 1

\* WaveformGenerator::WaveformGenerator and reset(): zeroed state, the shift
\* register reset to all ones, no waveform selected.
PowerOn ==
    [sync_source |-> NullRef, sync_dest |-> NullRef,
     accumulator |-> 0, msb_rising |-> FALSE, freq |-> 0, pw |-> 0,
     shift_register |-> ShiftMask, shift_register_reset |-> 0,
     shift_pipeline |-> 0,
     ring_msb_mask |-> 0, no_noise |-> WaveMask, noise_output |-> 0,
     no_noise_or_noise_output |-> WaveMask, no_pulse |-> WaveMask,
     pulse_output |-> WaveMask,
     waveform |-> 0, tri_saw_pipeline |-> 0, osc3 |-> 0,
     test |-> 0, ring_mod |-> 0, sync |-> 0,
     waveform_output |-> 0, floating_output_ttl |-> 0,
     sid_model |-> MOS6581]

\* WaveformGenerator::set_chip_model
set_chip_model(g, model) == [g EXCEPT !.sid_model = model]

\* WaveformGenerator::set_sync_source, called on generator v of ring vs with
\* source s: v observes s, and s gets v as its sync destination.
set_sync_source(vs, v, s) ==
    [vs EXCEPT ![v].sync_source = s, ![s].sync_dest = v]

\* The sources that would wire the ring the other way round.
SyncSourceArg_reversed(v) == CASE v = 0 -> 1 [] v = 1 -> 2 [] v = 2 -> 0

\* SIDOsc::SIDOsc, "Link voices for sync": the source given to voice[v].
SyncSourceArg(v) == CASE v = 0 -> 2 [] v = 1 -> 0 [] v = 2 -> 1

\* SIDOsc::SIDOsc: three voices of chip model 6581, wired into the ring.
Constructed ==
    LET v0 == [v \in Voices |-> set_noise_output(set_chip_model(PowerOn, MOS6581))]
        v1 == set_sync_source(v0, 0, SyncSourceArg(0))
        v2 == set_sync_source(v1, 1, SyncSourceArg(1))
    IN  set_sync_source(v2, 2, SyncSourceArg(2))

\* The masks derived from the control register bits (writeCONTROL_REG):
\* ring_msb_mask substitutes the accumulator MSB when ring_mod is set and
\* sawtooth is not selected; no_noise / no_pulse let noise / pulse through
\* only when they are selected.
control_masks(g) ==
    LET nn == IF BitAnd(g.waveform, 8) # 0 THEN 0 ELSE WaveMask
    IN  [g EXCEPT !.ring_msb_mask =
                      IF g.ring_mod # 0 /\ BitAnd(g.waveform, 2) = 0
                      THEN \h800000 ELSE 0,
                  !.no_noise = nn,
                  !.no_noise_or_noise_output = BitOr(nn, g.noise_output),
                  !.no_pulse = IF BitAnd(g.waveform, 4) # 0 THEN 0 ELSE WaveMask]

\* Cycles a shift register reset takes once the test bit has triggered it, and
\* cycles a floating DAC input takes to fade: the counts of wave.cc scaled
\* down to a few cycles.
ShiftResetTime == 2
FloatingTTL == 3

\* WaveformGenerator::writeCONTROL_REG: the waveform selector is the upper
\* nibble, test / ring_mod / sync are bits 3 / 2 / 1.  The test bit rising
\* clears the accumulator, flushes the shift pipeline, starts the shift
\* register reset countdown and sets the pulse high; deselecting every
\* waveform starts the fading of the floating DAC input.
writeCONTROL_REG(g, control) ==
    LET g1 == control_masks(
                 [g EXCEPT !.waveform = Low(control \div 2^4, 4),
                           !.test = MaskBit(control, 3),
                           !.ring_mod = MaskBit(control, 2),
                           !.sync = MaskBit(control, 1)])
        g2 == IF g.test = 0 /\ g1.test # 0
              THEN [g1 EXCEPT !.accumulator = 0, !.shift_pipeline = 0,
                              !.shift_register_reset = ShiftResetTime,
                              !.pulse_output = WaveMask]
              ELSE g1
    IN  IF g2.waveform = 0 /\ g.waveform # 0
        THEN [g2 EXCEPT !.floating_output_ttl = FloatingTTL]
        ELSE g2

\* WaveformGenerator::writeFREQ_LO / writeFREQ_HI: each replaces one byte of
\* the 16-bit frequency register.
writeFREQ_LO(g, freq_lo) ==
    [g EXCEPT !.freq = (Low(@, 16) - Low(@, 8)) + Low(freq_lo, 8)]
writeFREQ_HI(g, freq_hi) ==
    [g EXCEPT !.freq = (Low(freq_hi, 8) * 2^8) + Low(@, 8)]

\* A generator of ring position g0 brought, by register writes and clocking,
\* to the register contents of record c.  With test set the accumulator is
\* held at zero and no shift is pending.
Configured(g0, c) ==
    LET g1 == [g0 EXCEPT
                 !.sid_model = c.sid_model,
                 !.waveform = c.waveform, !.test = c.test,
                 !.ring_mod = c.ring_mod, !.sync = c.sync,
                 !.freq = c.freq, !.pw = c.pw,
                 !.accumulator = IF c.test # 0 THEN 0 ELSE c.accumulator,
                 !.msb_rising = c.msb_rising,
                 !.shift_register = c.shift_register,
                 !.shift_register_reset = c.shift_register_reset,
                 !.shift_pipeline = IF c.test # 0 THEN 0 ELSE c.shift_pipeline,
                 !.waveform_output = c.waveform_output,
                 !.osc3 = c.waveform_output,
                 !.tri_saw_pipeline = c.tri_saw_pipeline,
                 !.floating_output_ttl = c.floating_output_ttl]
        g2 == control_masks(set_noise_output(g1))
    IN  [g2 EXCEPT !.pulse_output =
                       IF c.test # 0 THEN WaveMask ELSE pulse_level(g2)]

\* The register contents every configuration starts from.
Quiet ==
    [sid_model |-> MOS6581, waveform |-> 0, test |-> 0, ring_mod |-> 0,
     sync |-> 0, freq |-> 0, pw |-> 0, accumulator |-> 0,
     msb_rising |-> FALSE, shift_register |-> ShiftMask,
     shift_register_reset |-> 0, shift_pipeline |-> 0,
     waveform_output |-> 0, tri_saw_pipeline |-> 0,
     floating_output_ttl |-> 0]

\* The ring with generator v configured as cs[v].
Ring(cs) == [v \in Voices |-> Configured(Constructed[v], cs[v])]

\* No step has been taken yet: prev is the generator as the previous cycle
\* left it, rose1 / rose2 tell whether accumulator bit 19 went 0 to 1 in the
\* last clock() and in the one before, cleared holds the shift register bits
\* that write-back has cleared since the last reset, moved holds the same bits
\* carried one place up by every shift since, lookup / prevLookup are the raw
\* table values of this and of the previous cycle, n counts cycles.
NoHist ==
    [prev |-> PowerOn, rose1 |-> FALSE, rose2 |-> FALSE, cleared |-> 0,
     moved |-> 0, lookup |-> 0, prevLookup |-> 0, n |-> 0]

\* No clock(delta_t) call is under way.  During a call da is
\* delta_accumulator, sp shift_period, n the number of loop iterations begun,
\* da0 the delta_accumulator the loop started with, g0 / dt the generator and
\* the delta_t the call was made with.
NoLoop ==
    [pc |-> "idle", da |-> 0, sp |-> 0, n |-> 0, da0 |-> 0,
     g0 |-> PowerOn, dt |-> 0]

\* SIDOsc's members outside the voices, before the first next(), and the
\* inputs the running next() has read: waveformType, and gateInput in tenths.
OscIdle ==
    [pc |-> "idle", v |-> 0, i |-> 0, nSamples |-> 0, calls |-> 0,
     mPrevGate |-> FALSE, mPrevFreq |-> 0 - 1, freqValue |-> 0,
     waveformType |-> 0, gateInput |-> 0,
     clocked |-> {}, synced |-> {}, computed |-> {}, read |-> {}]

---------------------------------------------------------------------------
\* The member functions as steps on generator v of the ring.

\* Longest run of steps explored by the specifications below.
MaxSteps == 2

\* Cycle counts given to the delta_t functions: 1 .. MaxDelta, and one count
\* long enough for delta_t * freq to span several shift periods of 2^20.
MaxDelta == 2
LongDelta == 40
DeltaTs == (1 .. MaxDelta) \cup {LongDelta}

Did(name, v, dt) ==
    /\ cycles' = cycles + 1
    /\ last' = [op |-> name, v |-> v, dt |-> dt]

SourceAcc(v) == voice[voice[v].sync_source].accumulator

Clock(v) ==
    /\ cycles < limit
    /\ voice' = [voice EXCEPT ![v] = clock(@)]
    /\ Did("clock", v, 1)
    /\ UNCHANGED <<limit, start, snap, twin, osc, hist, loop>>

ClockDelta(v) ==
    /\ cycles < limit
    /\ \E dt \in DeltaTs :
        /\ voice' = [voice EXCEPT ![v] = clock_delta(@, dt)]
        /\ Did("clock_delta", v, dt)
        /\ UNCHANGED <<limit, start, snap, twin, osc, hist, loop>>

Synchronize(v) ==
    /\ cycles < limit
    /\ voice' = synchronize(voice, v)
    /\ Did("synchronize", v, 0)
    /\ UNCHANGED <<limit, start, snap, twin, osc, hist, loop>>

SetWaveformOutput(v) ==
    /\ cycles < limit
    /\ \E tv \in TableInputs(voice[v]) :
        /\ voice' = [voice EXCEPT ![v] = set_waveform_output(@, SourceAcc(v), tv)]
        /\ Did("set_waveform_output", v, 1)
        /\ UNCHANGED <<limit, start, snap, twin, osc, hist, loop>>

SetWaveformOutputDelta(v) ==
    /\ cycles < limit
    /\ \E dt \in DeltaTs, tv \in TableInputs(voice[v]) :
        /\ voice' = [voice EXCEPT
                       ![v] = set_waveform_output_delta(@, dt, SourceAcc(v), tv)]
        /\ Did("set_waveform_output_delta", v, dt)
        /\ UNCHANGED <<limit, start, snap, twin, osc, hist, loop>>

ClockShiftRegister(v) ==
    /\ cycles < limit
    /\ voice' = [voice EXCEPT ![v] = clock_shift_register(@)]
    /\ Did("clock_shift_register", v, 0)
    /\ UNCHANGED <<limit, start, snap, twin, osc, hist, loop>>

WriteShiftRegister(v) ==
    /\ cycles < limit
    /\ voice' = [voice EXCEPT ![v] = write_shift_register(@)]
    /\ Did("write_shift_register", v, 0)
    /\ UNCHANGED <<limit, start, snap, twin, osc, hist, loop>>

ResetShiftRegister(v) ==
    /\ cycles < limit
    /\ voice' = [voice EXCEPT ![v] = reset_shift_register(@)]
    /\ Did("reset_shift_register", v, 0)
    /\ UNCHANGED <<limit, start, snap, twin, osc, hist, loop>>

---------------------------------------------------------------------------
\* Spec: the member functions called on the three ring members in any order.

\* Register contents of the rings Spec starts from.
\* Combined sawtooth+triangle about to wrap, hard sync and ring mod enabled.
CfgWrap ==
    [Quiet EXCEPT !.waveform = 3, !.sync = 2, !.ring_mod = 4,
                  !.accumulator = \hfff001, !.freq = \hffff, !.pw = \h800,
                  !.waveform_output = \hfff, !.shift_pipeline = 1]
\* Noise+triangle on the 8580, MSB and bit 19 about to rise.
CfgRise ==
    [Quiet EXCEPT !.sid_model = MOS8580, !.waveform = 9, !.sync = 2,
                  !.ring_mod = 4, !.accumulator = \h7f8000, !.freq = \h8000,
                  !.pw = \hfff, !.shift_register = \h5a5a5a,
                  !.waveform_output = \h0f0, !.tri_saw_pipeline = \h555]
\* Test bit set, the shift register reset pending.
CfgTest ==
    [Quiet EXCEPT !.waveform = 8, !.test = 8, !.freq = \hffff, !.pw = 1,
                  !.shift_register = \h000001, !.shift_register_reset = 2,
                  !.msb_rising = TRUE]
\* No waveform selected, the DAC input floating.
CfgFloat ==
    [Quiet EXCEPT !.accumulator = \h07ffff, !.freq = \hffff, !.sync = 2,
                  !.waveform_output = \habc, !.floating_output_ttl = 2,
                  !.shift_register = \h400000]

AnyRings ==
    { <<CfgWrap, CfgRise, CfgTest>>, <<CfgRise, CfgFloat, CfgWrap>>,
      <<CfgTest, CfgWrap, CfgFloat>>, <<CfgFloat, CfgTest, CfgRise>> }

\* A sequence <<c0, c1, c2>> as a function on Voices.
OnVoices(cs) == [v \in Voices |-> cs[v + 1]]

Init ==
    /\ voice \in {Ring(OnVoices(cs)) : cs \in AnyRings}
    /\ last = [op |-> "init", v |-> 0, dt |-> 0]
    /\ cycles = 0
    /\ limit = MaxSteps
    /\ start = voice
    /\ snap = voice
    /\ twin = voice[0]
    /\ osc = OscIdle
    /\ hist = NoHist
    /\ loop = NoLoop

Next ==
    \/ \E v \in Voices : Clock(v)
    \/ \E v \in Voices : ClockDelta(v)
    \/ \E v \in Voices : Synchronize(v)
    \/ \E v \in Voices : SetWaveformOutput(v)
    \/ \E v \in Voices : SetWaveformOutputDelta(v)
    \/ \E v \in Voices : ClockShiftRegister(v)
    \/ \E v \in Voices : WriteShiftRegister(v)
    \/ \E v \in Voices : ResetShiftRegister(v)

Spec == Init /\ [][Next]_vars

---------------------------------------------------------------------------
\* Claims checked under Spec.

\* C6: after any sequence of clock(), clock(delta_t), synchronize(),
\* set_waveform_output(), set_waveform_output(delta_t), clock_shift_register(),
\* write_shift_register() and reset_shift_register() calls on the ring members
\* in any order, every accumulator is in [0, 2^24 - 1] and every shift
\* register is in [0, 2^23 - 1].
C6_InRange ==
    \A v \in Voices :
        /\ voice[v].accumulator \in 0 .. AccMask
        /\ voice[v].shift_register \in 0 .. ShiftMask

\* C6 witness: a clock() whose addition overflowed 24 bits (the accumulator
\* wrapped around), and the register of that generator still all ones.
C6_Witness ==
    /\ last.op = "clock"
    /\ start[last.v].test = 0
    /\ start[last.v].accumulator + start[last.v].freq >= AccMod
    /\ voice[last.v].accumulator < start[last.v].accumulator

\* C8: after every clock(delta_t) step, test set or clear, shift_register_reset
\* and shift_pipeline are not negative; after every
\* set_waveform_output(delta_t), floating_output_ttl is not negative.
C8_NonNegative ==
    /\ last.op = "clock_delta" =>
          /\ voice[last.v].shift_register_reset >= 0
          /\ voice[last.v].shift_pipeline >= 0
    /\ last.op = "set_waveform_output_delta" =>
          voice[last.v].floating_output_ttl >= 0

\* C8 witness: a clock(delta_t) with test set whose delta_t is larger than the
\* remaining reset time, so that the subtraction went below zero.
C8_Witness ==
    /\ last.op = "clock_delta"
    /\ cycles = 1
    /\ start[last.v].test # 0
    /\ start[last.v].shift_register_reset > 0
    /\ last.dt > start[last.v].shift_register_reset
    /\ voice[last.v].shift_register_reset = 0
    /\ voice[last.v].shift_register = ShiftMask

---------------------------------------------------------------------------
\* SpecLin: generator 0, test clear, clocked one cycle at a time, next to the
\* same start state advanced by a single clock(delta_t) of as many cycles.

\* Number of single cycles clocked.
MaxN == 6

LinAccs == {\h000000, \h07fff0, \h7ffff0, \h555555, \hfffff0, \hffffff}
LinFreqs == {\h0000, \h0001, \h0010, \h1000, \h8000, \hffff}

InitLin ==
    /\ \E a \in LinAccs, f \in LinFreqs :
          voice = Ring([v \in Voices |->
                          [Quiet EXCEPT !.accumulator = a, !.freq = f,
                                        !.waveform = 2]])
    /\ last = [op |-> "init", v |-> 0, dt |-> 0]
    /\ cycles = 0
    /\ limit = MaxN
    /\ start = voice
    /\ snap = voice
    /\ twin = voice[0]
    /\ osc = OscIdle
    /\ hist = NoHist
    /\ loop = NoLoop

LinStep ==
    /\ cycles < limit
    /\ voice' = [voice EXCEPT ![0] = clock(@)]
    /\ twin' = clock_delta(start[0], cycles + 1)
    /\ Did("clock", 0, 1)
    /\ UNCHANGED <<limit, start, snap, osc, hist, loop>>

NextLin == LinStep

SpecLin == InitLin /\ [][NextLin]_vars

\* C1: with test clear, N consecutive clock() calls from accumulator A with
\* frequency F leave accumulator = (A + N*F) mod 2^24, and one clock(N) call
\* from the same start leaves the same accumulator.
C1_Linear ==
    cycles >= 1 =>
        /\ voice[0].accumulator
              = (start[0].accumulator + cycles * start[0].freq) % AccMod
        /\ twin.accumulator = voice[0].accumulator

\* C1 witness: several cycles during which the accumulator wrapped around.
C1_Witness ==
    /\ cycles >= 2
    /\ start[0].accumulator + cycles * start[0].freq >= AccMod
    /\ voice[0].accumulator < start[0].accumulator
    /\ twin.accumulator = voice[0].accumulator

---------------------------------------------------------------------------
\* SpecOut: the output computation of generator 0 for every waveform selector
\* and both chip models.  Generator 2 is the sync source of generator 0.

\* Register contents of generator 0 besides waveform and chip model, and the
\* accumulator of its sync source.
OutPulseHigh ==
    [cfg |-> [Quiet EXCEPT !.accumulator = \hfffabc, !.pw = 0,
                           !.waveform_output = \h123],
     src |-> \h000000]
OutPulseLow ==
    [cfg |-> [Quiet EXCEPT !.accumulator = \h7ff123, !.pw = \h801,
                           !.ring_mod = 4, !.shift_register = \h2aaaaa,
                           !.waveform_output = \hfff],
     src |-> \h000000]
OutRingSame ==
    [cfg |-> [Quiet EXCEPT !.accumulator = \h800000, !.pw = \h800,
                           !.ring_mod = 4, !.tri_saw_pipeline = \hfff],
     src |-> \h800000]
OutTest ==
    [cfg |-> [Quiet EXCEPT !.test = 8, !.pw = 1, !.shift_register = \h555555,
                           !.tri_saw_pipeline = \h555],
     src |-> \hffffff]
OutFloat ==
    [cfg |-> [Quiet EXCEPT !.accumulator = \h123456, !.pw = \hfff,
                           !.shift_register = 0, !.waveform_output = \hfff,
                           !.floating_output_ttl = 2],
     src |-> \h7fffff]
OutPipeline ==
    [cfg |-> [Quiet EXCEPT !.accumulator = \hf00fff, !.pw = \hf00,
                           !.shift_pipeline = 1, !.waveform_output = \h800,
                           !.floating_output_ttl = 1],
     src |-> \h000000]

OutProfiles ==
    {OutPulseHigh, OutPulseLow, OutRingSame, OutTest, OutFloat, OutPipeline}

InitOut ==
    /\ \E w \in 0 .. 15, m \in {MOS6581, MOS8580}, p \in OutProfiles :
          voice = Ring([v \in Voices |->
                          CASE v = 0 -> [p.cfg EXCEPT !.waveform = w,
                                                      !.sid_model = m]
                            [] v = 2 -> [Quiet EXCEPT !.accumulator = p.src]
                            [] OTHER -> Quiet])
    /\ last = [op |-> "init", v |-> 0, dt |-> 0]
    /\ cycles = 0
    /\ limit = MaxSteps
    /\ start = voice
    /\ snap = voice
    /\ twin = voice[0]
    /\ osc = OscIdle
    /\ hist = NoHist
    /\ loop = NoLoop

NextOut ==
    \/ SetWaveformOutput(0)
    \/ SetWaveformOutputDelta(0)

SpecOut == InitOut /\ [][NextOut]_vars

\* C7: after every set_waveform_output() and set_waveform_output(delta_t)
\* call, for every waveform selector, both chip models and any pulse/noise
\* state, waveform_output and osc3 are in [0, 4095].
C7_OutputRange ==
    last.op \in {"set_waveform_output", "set_waveform_output_delta"} =>
        /\ voice[0].waveform_output \in 0 .. WaveMask
        /\ voice[0].osc3 \in 0 .. WaveMask

\* C7 witness: noise+pulse on the 6581 with all noise taps high, where
\* noise_pulse6581 shifts the value left before and'ing.
C7_Witness ==
    /\ last.op = "set_waveform_output"
    /\ cycles = 1
    /\ voice[0].waveform = 12
    /\ voice[0].sid_model = MOS6581
    /\ start[0].noise_output >= \hf00
    /\ start[0].pulse_output = WaveMask
    /\ voice[0].waveform_output = \hfc0

\* C9: with waveform = 2 (sawtooth only), after set_waveform_output() the
\* value waveform_output equals accumulator >> 12, whatever the pulse width,
\* ring_mod, the sync source's accumulator and the shift register are.
C9_Sawtooth ==
    (last.op = "set_waveform_output" /\ voice[0].waveform = 2) =>
        voice[0].waveform_output = voice[0].accumulator \div 2^12

\* C9 witness: sawtooth with ring_mod set, the pulse level low and the sync
\* source's MSB clear, and a non-zero output.
C9_Witness ==
    /\ last.op = "set_waveform_output"
    /\ cycles = 1
    /\ voice[0].waveform = 2
    /\ voice[0].ring_mod # 0
    /\ start[0].pulse_output = 0
    /\ Bit(start[2].accumulator, 23) = 0
    /\ voice[0].waveform_output = \h7ff

---------------------------------------------------------------------------
\* SpecFloat: generator 0 with no waveform selected, taken through single
\* cycles (clock(), then set_waveform_output()) while the floating DAC input
\* ages.

\* Largest floating_output_ttl the decay starts from.
MaxTTL == 3

FloatOutputs == {\h001, \habc, \hfff}
FloatAccs == {\h07fff0, \hfffff0}

InitFloat ==
    /\ \E t \in 1 .. MaxTTL, w \in FloatOutputs, a \in FloatAccs,
          m \in {MOS6581, MOS8580} :
          voice = Ring([v \in Voices |->
                          [Quiet EXCEPT !.sid_model = m, !.accumulator = a,
                                        !.freq = \hffff, !.pw = \h800,
                                        !.waveform_output = w,
                                        !.floating_output_ttl = t]])
    /\ last = [op |-> "init", v |-> 0, dt |-> 0]
    /\ cycles = 0
    /\ limit = 2 * (MaxTTL + 2)
    /\ start = voice
    /\ snap = voice
    /\ twin = voice[0]
    /\ osc = OscIdle
    /\ hist = NoHist
    /\ loop = NoLoop

NextFloat ==
    \/ last.op # "clock" /\ Clock(0)
    \/ last.op = "clock" /\ SetWaveformOutput(0)

SpecFloat == InitFloat /\ [][NextFloat]_vars

\* The number of set_waveform_output() calls made so far under SpecFloat.
FloatCalls == cycles \div 2

\* C10: with waveform = 0 held and floating_output_ttl = T > 0, waveform_output
\* keeps its previous value during the first T-1 set_waveform_output() calls,
\* is exactly 0 from the T-th call on, and never increases.
C10_FloatDecay ==
    LET T == start[0].floating_output_ttl
        W == start[0].waveform_output
    IN  /\ FloatCalls < T => voice[0].waveform_output = W
        /\ FloatCalls >= T => voice[0].waveform_output = 0
        /\ voice[0].waveform_output <= W

\* C10 witness: a decay of more than one cycle that has just ended.
C10_Witness ==
    /\ start[0].floating_output_ttl >= 2
    /\ last.op = "set_waveform_output"
    /\ FloatCalls = start[0].floating_output_ttl
    /\ start[0].waveform_output > 0
    /\ voice[0].waveform_output = 0

---------------------------------------------------------------------------
\* SpecRing: the ring driven cycle by cycle as SIDOsc::next drives it (every
\* generator clocked, then every generator synchronized, then every output
\* set), or by clock() alone, with control register writes between cycles.

\* Number of steps SpecRing explores.
RingSteps == 12

RingAccs == {\h7f8000, \h300000}
RingControls == {\h10, \h12}
\* Control register values written between cycles: triangle with the test
\* bit, triangle with the sync bit.
RingWrites == {\h18, \h12}

InitRing ==
    /\ \E a \in [Voices -> RingAccs], c \in [Voices -> RingControls] :
          voice = [v \in Voices |->
                     writeCONTROL_REG(
                        Configured(Constructed[v],
                                   [Quiet EXCEPT !.accumulator = a[v],
                                                 !.freq = \h8000,
                                                 !.pw = \h800]),
                        c[v])]
    /\ last = [op |-> "init", v |-> 0, dt |-> 0]
    /\ cycles = 0
    /\ limit = RingSteps
    /\ start = voice
    /\ snap = voice
    /\ twin = voice[0]
    /\ osc = OscIdle
    /\ hist = NoHist
    /\ loop = NoLoop

\* The last generator of a pass over the three voices was just handled.
PassDone(name) == last.op = name /\ last.v = 2
\* Generator v is the next one of the pass of operation name.
InPass(name, v) == v > 0 /\ last.op = name /\ last.v = v - 1

\* A cycle may begin: nothing is half done.
CycleBoundary ==
    \/ last.op \in {"init", "writeCONTROL_REG"}
    \/ PassDone("clock")
    \/ PassDone("set_waveform_output")

RingClock(v) ==
    /\ (v = 0 /\ CycleBoundary) \/ InPass("clock", v)
    /\ cycles < limit
    /\ voice' = [voice EXCEPT ![v] = clock(@)]
    /\ snap' = IF v = 0 THEN voice ELSE snap
    /\ Did("clock", v, 1)
    /\ UNCHANGED <<limit, start, twin, osc, hist, loop>>

RingSynchronize(v) ==
    /\ (v = 0 /\ PassDone("clock")) \/ InPass("synchronize", v)
    /\ Synchronize(v)

RingSetWaveformOutput(v) ==
    /\ (v = 0 /\ PassDone("synchronize")) \/ InPass("set_waveform_output", v)
    /\ SetWaveformOutput(v)

RingWrite(v) ==
    /\ CycleBoundary
    /\ last.op # "writeCONTROL_REG"
    /\ cycles < limit
    /\ \E control \in RingWrites :
          voice' = [voice EXCEPT ![v] = writeCONTROL_REG(@, control)]
    /\ Did("writeCONTROL_REG", v, 0)
    /\ UNCHANGED <<limit, start, snap, twin, osc, hist, loop>>

NextRing ==
    \/ \E v \in Voices : RingClock(v)
    \/ \E v \in Voices : RingSynchronize(v)
    \/ \E v \in Voices : RingSetWaveformOutput(v)
    \/ \E v \in Voices : RingWrite(v)

SpecRing == InitRing /\ [][NextRing]_vars

\* Generator v has had its output set in the present cycle.
OutputSet(v) == last.op = "set_waveform_output" /\ last.v >= v
\* Generator v has been clocked in the present cycle.
ClockedNow(v) ==
    \/ last.op = "clock" /\ last.v >= v
    \/ last.op \in {"synchronize", "set_waveform_output"}
\* The present state was reached by clocking, not by a register write.
Clocked == last.op \notin {"init", "writeCONTROL_REG"}

MsbRose(v) ==
    /\ snap[v].test = 0
    /\ Bit(snap[v].accumulator, 23) = 0
    /\ Bit((snap[v].accumulator + snap[v].freq) % AccMod, 23) = 1

\* synchronize() of generator v must reset its destination's accumulator.
MustReset(v) ==
    /\ MsbRose(v)
    /\ voice[voice[v].sync_dest].sync # 0
    /\ ~(voice[v].sync # 0 /\ MsbRose(voice[v].sync_source))

\* C3: synchronize() on G, after the cycle's clock(), sets the accumulator of
\* G's destination to 0 if G's MSB rose this cycle, the destination's sync
\* bit is set, and it is not the case that G's sync bit is set and G's
\* source's MSB rose this cycle too; otherwise it leaves that accumulator.
C3_SyncReset ==
    [][last'.op = "synchronize"
          => LET d == voice[last'.v].sync_dest
             IN  voice'[d].accumulator =
                    IF MustReset(last'.v) THEN 0 ELSE voice[d].accumulator]_vars

\* The ring is a 3-cycle without null reference, and each generator is the
\* sync source of its sync destination.
RingClosed ==
    /\ \A v \in Voices :
          /\ voice[v].sync_source \in Voices
          /\ voice[v].sync_dest \in Voices
          /\ voice[v].sync_dest # v
          /\ voice[voice[v].sync_dest].sync_dest # v
          /\ voice[voice[voice[v].sync_dest].sync_dest].sync_dest = v
          /\ voice[voice[v].sync_dest].sync_source = v

\* C4, as stated: the ring is closed, generator 0's MSB rising resets
\* generator 2, generator 1's resets generator 0, generator 2's resets
\* generator 1.
C4_RingAsStated ==
    /\ RingClosed
    /\ voice[0].sync_dest = 2
    /\ voice[1].sync_dest = 0
    /\ voice[2].sync_dest = 1

\* C4, amended: the ring is closed, and generator 0's MSB rising resets
\* generator 1, generator 1's resets generator 2, generator 2's resets
\* generator 0: synchronize() on generator v changes no accumulator but that
\* of generator (v + 1) mod 3.
C4_Ring ==
    /\ RingClosed
    /\ [][/\ RingClosed'
          /\ \A v \in Voices : voice'[v].sync_dest = (v + 1) % 3
          /\ last'.op = "synchronize"
                => \A d \in Voices \ {(last'.v + 1) % 3} :
                      voice'[d].accumulator = voice[d].accumulator]_vars

\* synchronize() on a generator whose MSB rose has just reset the
\* accumulator of the next generator of the ring.
C4_Witness ==
    \E v \in Voices :
       /\ last.op = "synchronize"
       /\ last.v = v
       /\ MsbRose(v)
       /\ voice[v].sync_dest = (v + 1) % 3
       /\ snap[(v + 1) % 3].accumulator # 0
       /\ voice[(v + 1) % 3].accumulator = 0

---------------------------------------------------------------------------
\* SpecOsc: SIDOsc::next, statement by statement, on the ring its
\* constructor built.  osc.pc is the position in next(): "idle" between
\* calls, "sample" at the head of the sample loop, and the name of the pass
\* over the voices that is under way.

\* Number of steps SpecOsc explores, and the longest buffer next() is given.
OscSteps == 30
MaxSamples == 2

\* Inputs of the unit: frequency in Hz (0 silences the sample), the waveform
\* selector and the gate.
OscFreqs == {0, 440, 3000}
OscWaveforms == {1, 2, 8}

\* static_cast<unsigned int>((freq * kAccResolution) / kClockFreq), with
\* kAccResolution / kClockFreq = 2^24 / 985248 = 524288 / 30789.
FreqValue(freq) == (freq * 524288) \div 30789

\* The pass and voice that follow voice v of pass pc in the sample loop.
after_interleaved(pc, v) ==
    CASE pc = "clock" -> [pc |-> "synchronize", v |-> v]
      [] pc = "synchronize" ->
            IF v < 2 THEN [pc |-> "clock", v |-> v + 1]
            ELSE [pc |-> "set_waveform_output", v |-> 0]
      [] pc = "set_waveform_output" ->
            IF v < 2 THEN [pc |-> pc, v |-> v + 1]
            ELSE [pc |-> "output", v |-> 0]
      [] OTHER -> IF v < 2 THEN [pc |-> pc, v |-> v + 1]
                  ELSE [pc |-> "sample", v |-> 0]

\* SIDOsc::next, the four loops over the voices of one sample.
after(pc, v) ==
    IF v < 2 THEN [pc |-> pc, v |-> v + 1]
    ELSE CASE pc = "clock" -> [pc |-> "synchronize", v |-> 0]
           [] pc = "synchronize" -> [pc |-> "set_waveform_output", v |-> 0]
           [] pc = "set_waveform_output" -> [pc |-> "output", v |-> 0]
           [] OTHER -> [pc |-> "sample", v |-> 0]

InitOsc ==
    /\ voice = Constructed
    /\ last = [op |-> "init", v |-> 0, dt |-> 0]
    /\ cycles = 0
    /\ limit = OscSteps
    /\ start = voice
    /\ snap = voice
    /\ twin = voice[0]
    /\ osc = OscIdle
    /\ hist = NoHist
    /\ loop = NoLoop

\* The gate input, in tenths, and the level it is compared with (0.5).
OscGates == {0, 5, 10}
GateThreshold == 5

\* bool currentGate = (gateInput > 0.5f)
CurrentGate(gateInput) == gateInput > GateThreshold

\* The test made on the gate, true whenever the gate is high.
GateChanged_when_high(gateInput, mPrevGate) == CurrentGate(gateInput)

\* if (currentGate != mPrevGate)
GateChanged(gateInput, mPrevGate) == CurrentGate(gateInput) # mPrevGate

\* next(nSamples) is called (the first call is the constructor's next(1)):
\* the control register is written to every voice if the gate changed.
OscCall ==
    /\ osc.pc = "idle"
    /\ cycles < limit
    /\ \E n \in 1 .. MaxSamples, waveformType \in OscWaveforms,
          gateInput \in OscGates :
          /\ osc.calls = 0 => n = 1
          /\ LET currentGate == CurrentGate(gateInput)
                 newControlReg ==
                    waveformType * 2^4 + (IF currentGate THEN 1 ELSE 0)
             IN  /\ voice' = IF GateChanged(gateInput, osc.mPrevGate)
                              THEN [v \in Voices |->
                                      writeCONTROL_REG(voice[v], newControlReg)]
                              ELSE voice
                 /\ osc' = [osc EXCEPT !.pc = "sample", !.i = 0,
                                       !.nSamples = n, !.calls = 1,
                                       !.waveformType = waveformType,
                                       !.gateInput = gateInput,
                                       !.mPrevGate =
                                          IF GateChanged(gateInput, @)
                                          THEN currentGate ELSE @]
    /\ Did("next", 0, 0)
    /\ UNCHANGED <<limit, start, snap, twin, hist, loop>>

\* The sample loop is left when every sample is done.
OscReturn ==
    /\ osc.pc = "sample"
    /\ osc.i = osc.nSamples
    /\ cycles < limit
    /\ osc' = [osc EXCEPT !.pc = "idle"]
    /\ Did("return", 0, 0)
    /\ UNCHANGED <<voice, limit, start, snap, twin, hist, loop>>

\* Head of the sample loop: a frequency of 0 or less yields a silent sample;
\* a changed frequency is written to every voice before the voices are
\* clocked.
OscSample ==
    /\ osc.pc = "sample"
    /\ osc.i < osc.nSamples
    /\ cycles < limit
    /\ \E freq \in OscFreqs :
          IF freq <= 0
          THEN /\ osc' = [osc EXCEPT !.i = @ + 1]
               /\ UNCHANGED <<voice, snap>>
          ELSE /\ voice' =
                     IF freq # osc.mPrevFreq
                     THEN [v \in Voices |->
                             writeFREQ_HI(
                                writeFREQ_LO(voice[v], Low(FreqValue(freq), 8)),
                                Low(FreqValue(freq) \div 2^8, 8))]
                     ELSE voice
               /\ snap' = voice'
               /\ osc' = [osc EXCEPT
                             !.pc = "clock", !.v = 0,
                             !.freqValue = IF freq # osc.mPrevFreq
                                           THEN FreqValue(freq) ELSE @,
                             !.mPrevFreq = freq,
                             !.clocked = {}, !.synced = {},
                             !.computed = {}, !.read = {}]
    /\ Did("sample", 0, 0)
    /\ UNCHANGED <<limit, start, twin, hist, loop>>

OscClock ==
    /\ osc.pc = "clock"
    /\ cycles < limit
    /\ voice' = [voice EXCEPT ![osc.v] = clock(@)]
    /\ osc' = [osc EXCEPT !.pc = after("clock", osc.v).pc,
                          !.v = after("clock", osc.v).v,
                          !.clocked = @ \cup {osc.v}]
    /\ Did("clock", osc.v, 1)
    /\ UNCHANGED <<limit, start, snap, twin, hist, loop>>

OscSynchronize ==
    /\ osc.pc = "synchronize"
    /\ cycles < limit
    /\ voice' = synchronize(voice, osc.v)
    /\ osc' = [osc EXCEPT !.pc = after("synchronize", osc.v).pc,
                          !.v = after("synchronize", osc.v).v,
                          !.synced = @ \cup {osc.v}]
    /\ Did("synchronize", osc.v, 0)
    /\ UNCHANGED <<limit, start, snap, twin, hist, loop>>

OscSetWaveformOutput ==
    /\ osc.pc = "set_waveform_output"
    /\ cycles < limit
    /\ \E tv \in TableInputs(voice[osc.v]) :
          voice' = [voice EXCEPT
                       ![osc.v] = set_waveform_output(@, SourceAcc(osc.v), tv)]
    /\ osc' = [osc EXCEPT !.pc = after("set_waveform_output", osc.v).pc,
                          !.v = after("set_waveform_output", osc.v).v,
                          !.computed = @ \cup {osc.v}]
    /\ Did("set_waveform_output", osc.v, 1)
    /\ UNCHANGED <<limit, start, snap, twin, hist, loop>>

\* voice[v].wave.output() is read into the sample's sum; after the last
\* voice the sample is written and the loop goes on.
OscOutput ==
    /\ osc.pc = "output"
    /\ cycles < limit
    /\ osc' = [osc EXCEPT !.pc = after("output", osc.v).pc,
                          !.v = after("output", osc.v).v,
                          !.i = IF osc.v = 2 THEN @ + 1 ELSE @,
                          !.read = @ \cup {osc.v}]
    /\ Did("output", osc.v, 0)
    /\ UNCHANGED <<voice, limit, start, snap, twin, hist, loop>>

NextOsc ==
    \/ OscCall
    \/ OscReturn
    \/ OscSample
    \/ OscClock
    \/ OscSynchronize
    \/ OscSetWaveformOutput
    \/ OscOutput

SpecOsc == InitOsc /\ [][NextOsc]_vars

\* C5: within a sample that next() produces with freq > 0, a generator is
\* synchronized only when all three have been clocked, its output is set only
\* when all three have been synchronized, and output() is read only when all
\* three outputs have been set.
C5_PassOrder ==
    /\ osc.synced # {} => osc.clocked = Voices
    /\ osc.computed # {} => osc.synced = Voices
    /\ osc.read # {} => osc.computed = Voices

\* A sample with freq > 0 was produced: every generator went through the
\* four passes.
C5_Witness ==
    /\ osc.mPrevFreq > 0
    /\ last.op = "output"
    /\ last.v = 2
    /\ osc.clocked = Voices
    /\ osc.synced = Voices
    /\ osc.computed = Voices
    /\ osc.read = Voices

---------------------------------------------------------------------------
\* SpecCycle: generator 0 in single-cycle operation with test clear, one
\* clock() and one set_waveform_output() per cycle as in SIDOsc::next, the
\* other two generators at rest (freq 0, sync clear: clocking and
\* synchronizing them changes nothing).  reset_shift_register() may be
\* called between cycles.  hist records what the cycles did.

\* Number of steps SpecCycle explores.
CycleSteps == 12

\* Waveform selectors: none, triangle, sawtooth, pulse, noise, and noise
\* combined with triangle, with triangle and sawtooth, with pulse.
CycleWaveforms == {0, 1, 2, 4, 8, 9, 11, 12}

\* Accumulators just below a rise of bit 19 (after one cycle, after two) and
\* just below the pulse width (one cycle below, two cycles below), with shift
\* registers of different contents.
CycleProfiles ==
    {[Quiet EXCEPT !.accumulator = \h07f000, !.freq = \hffff, !.pw = \h080],
     [Quiet EXCEPT !.accumulator = \h070000, !.freq = \h8000, !.pw = \h800,
                   !.shift_register = \h2aaaaa],
     [Quiet EXCEPT !.accumulator = \h0fe000, !.freq = \h1000, !.pw = \h0ff,
                   !.shift_register = \h555555],
     [Quiet EXCEPT !.accumulator = \h0fd000, !.freq = \h1000, !.pw = \h0ff]}

InitCycle ==
    /\ \E w \in CycleWaveforms, m \in {MOS6581, MOS8580}, p \in CycleProfiles :
          voice = Ring([v \in Voices |->
                          IF v = 0
                          THEN [p EXCEPT !.waveform = w, !.sid_model = m]
                          ELSE Quiet])
    /\ last = [op |-> "init", v |-> 0, dt |-> 0]
    /\ cycles = 0
    /\ limit = CycleSteps
    /\ start = voice
    /\ snap = voice
    /\ twin = voice[0]
    /\ osc = OscIdle
    /\ hist = [NoHist EXCEPT !.prev = voice[0]]
    /\ loop = NoLoop

\* The bits of a that are not bits of b.
BitsLost(a, b) == a - BitAnd(a, b)

CycleClock ==
    /\ last.op # "clock"
    /\ cycles < limit
    /\ LET g  == voice[0]
           g1 == clock(g)
       IN  /\ voice' = [voice EXCEPT ![0] = g1]
           /\ hist' = [hist EXCEPT
                          !.prev = g,
                          !.rose2 = hist.rose1,
                          !.rose1 = (Bit(g.accumulator, 19) = 0
                                     /\ Bit(g1.accumulator, 19) = 1),
                          !.moved = IF g1.shift_register # g.shift_register
                                    THEN Low(@ * 2, ShiftBits) ELSE @]
    /\ Did("clock", 0, 1)
    /\ UNCHANGED <<limit, start, snap, twin, osc, loop>>

CycleSetWaveformOutput ==
    /\ last.op = "clock"
    /\ cycles < limit
    /\ \E tv \in TableInputs(voice[0]) :
          LET g  == voice[0]
              g1 == set_waveform_output(g, SourceAcc(0), tv)
              lost == BitsLost(g.shift_register, g1.shift_register)
          IN  /\ voice' = [voice EXCEPT ![0] = g1]
              /\ hist' = [hist EXCEPT
                             !.cleared = BitOr(@, lost),
                             !.moved = BitOr(@, lost),
                             !.prevLookup = hist.lookup,
                             !.lookup = wave(g, wave_index(g, SourceAcc(0)), tv),
                             !.n = @ + 1]
    /\ Did("set_waveform_output", 0, 1)
    /\ UNCHANGED <<limit, start, snap, twin, osc, loop>>

CycleReset ==
    /\ last.op = "set_waveform_output"
    /\ cycles < limit
    /\ voice' = [voice EXCEPT ![0] = reset_shift_register(@)]
    /\ hist' = [hist EXCEPT !.cleared = 0, !.moved = 0]
    /\ Did("reset_shift_register", 0, 0)
    /\ UNCHANGED <<limit, start, snap, twin, osc, loop>>

NextCycle ==
    \/ CycleClock
    \/ CycleSetWaveformOutput
    \/ CycleReset

SpecCycle == InitCycle /\ [][NextCycle]_vars

\* C11, as stated: a shift register bit that write-back has cleared since
\* the last reset is 0 after every later clock(), set_waveform_output() and
\* write-back.
C11_ClearedStaysClear ==
    BitAnd(voice[0].shift_register, hist.cleared) = 0

\* C11, amended: a bit that write-back has cleared is never set again by a
\* later set_waveform_output() / write_shift_register step; a clock() step
\* leaves it cleared too, but the shift it may perform carries the cleared
\* bit one place up, so the 0 is then found at the next position (until it
\* leaves bit 22 or the register is reset).
C11_ClearedBitTravels ==
    BitAnd(voice[0].shift_register, hist.moved) = 0

\* Write-back has cleared bits, and a later clock() has shifted the register.
C11_Witness ==
    /\ hist.cleared # 0
    /\ hist.moved # 0
    /\ hist.moved # hist.cleared
    /\ last.op = "clock"

\* One shift of the 23-bit LFSR: bits 21..0 move one place up (bit 22 is
\* dropped), bit 0 takes bit 22 XOR bit 17.
LfsrStep(s) ==
    (s % 2^22) * 2 + (IF Bit(s, 22) # Bit(s, 17) THEN 1 ELSE 0)

\* C12: in single-cycle clocking with test clear and freq <= 0xFFFF, a
\* clock() step shifts the LFSR (once) if and only if accumulator bit 19
\* went 0 to 1 in the clock() step two before it; every other clock() step
\* leaves the shift register as it is.
C12_ShiftTwoAfterRise ==
    [][last'.op = "clock"
          => voice'[0].shift_register =
                IF hist.rose2 THEN LfsrStep(voice[0].shift_register)
                ELSE voice[0].shift_register]_vars

\* The clock() just made performed the pipelined shift.
C12_Witness ==
    /\ last.op = "clock"
    /\ voice[0].test = 0
    /\ voice[0].freq <= \hffff
    /\ voice[0].shift_pipeline = 0
    /\ voice[0].shift_register # hist.prev.shift_register
    /\ voice[0].shift_register = LfsrStep(hist.prev.shift_register)

---------------------------------------------------------------------------
\* SpecShift: generator 0, test clear, clocked one cycle at a time while
\* hist.n counts the steps in which accumulator bit 19 goes 0 to 1, next to
\* the same start state advanced by a single clock(delta_t) of as many
\* cycles (twin).

\* Number of single cycles clocked: enough for delta_t * freq to span two
\* shift periods of 2^20 at the highest frequency.
MaxShiftN == 40

ShiftAccs == {\h000000, \h07fff0, \h080000, \h0ffff0, \hf7ff00, \h555555}
ShiftFreqs == {\h0000, \h0001, \h0010, \h1000, \h8000, \hffff}

InitShift ==
    /\ \E a \in ShiftAccs, f \in ShiftFreqs :
          voice = Ring([v \in Voices |->
                          [Quiet EXCEPT !.accumulator = a, !.freq = f,
                                        !.waveform = 8]])
    /\ last = [op |-> "init", v |-> 0, dt |-> 0]
    /\ cycles = 0
    /\ limit = MaxShiftN
    /\ start = voice
    /\ snap = voice
    /\ twin = voice[0]
    /\ osc = OscIdle
    /\ hist = NoHist
    /\ loop = NoLoop

ShiftStep ==
    /\ cycles < limit
    /\ LET g  == voice[0]
           g1 == clock(g)
       IN  /\ voice' = [voice EXCEPT ![0] = g1]
           /\ hist' = [hist EXCEPT
                          !.n = IF Bit(g.accumulator, 19) = 0
                                   /\ Bit(g1.accumulator, 19) = 1
                                THEN @ + 1 ELSE @]
    /\ twin' = clock_delta(start[0], cycles + 1)
    /\ Did("clock", 0, 1)
    /\ UNCHANGED <<limit, start, snap, osc, loop>>

NextShift == ShiftStep

SpecShift == InitShift /\ [][NextShift]_vars

\* The register s after n shifts of the LFSR.
RECURSIVE LfsrIter(_, _)
LfsrIter(s, n) == IF n = 0 THEN s ELSE LfsrStep(LfsrIter(s, n - 1))

\* C13: with test clear and freq <= 0xFFFF, one clock(delta_t) call shifts
\* the LFSR as many times as there are steps, among delta_t clock() calls
\* from the same start, in which accumulator bit 19 goes 0 to 1.
C13_ShiftCount ==
    cycles >= 1 =>
        {k \in 0 .. hist.n + 2 :
            LfsrIter(start[0].shift_register, k) = twin.shift_register}
           = {hist.n}

\* Bit 19 rose in more than one of the single steps, and the delta clock
\* made as many shifts.
C13_Witness ==
    /\ hist.n >= 2
    /\ voice[0].freq <= \hffff
    /\ voice[0].test = 0
    /\ twin.shift_register = LfsrIter(start[0].shift_register, hist.n)
    /\ twin.shift_register # start[0].shift_register

---------------------------------------------------------------------------
\* SpecLoop: clock(delta_t) of generator 0 with test clear, statement by
\* statement: the call computes the new accumulator and enters the shift
\* loop, every step of the model is one iteration of the loop, and the call
\* ends by setting the pulse level.

\* Number of steps after which no further call is made, and the longest
\* delta_t: 300 cycles at freq 0xffff span 18 shift periods of 2^20.
LoopSteps == 24
MaxLoopDelta == 300

LoopAccs == {\h000000, \h07fff0, \hf80000}
LoopFreqs == {\h0000, \h0001, \h8000, \hffff}
LoopDeltas == {0, 1, 9, 17, MaxLoopDelta}

InitLoop ==
    /\ \E a \in LoopAccs, f \in LoopFreqs :
          voice = Ring([v \in Voices |->
                          [Quiet EXCEPT !.accumulator = a, !.freq = f,
                                        !.waveform = 8]])
    /\ last = [op |-> "init", v |-> 0, dt |-> 0]
    /\ cycles = 0
    /\ limit = LoopSteps
    /\ start = voice
    /\ snap = voice
    /\ twin = voice[0]
    /\ osc = OscIdle
    /\ hist = NoHist
    /\ loop = NoLoop

\* One iteration of the while loop with the condition skipped.
loop_iter_no_decrement(g, l) ==
    [g |-> clock_shift_register(g), l |-> [l EXCEPT !.n = @ + 1]]

\* One iteration of the while loop of clock(cycle_count), entered with
\* delta_accumulator # 0: the generator and the locals it leaves; pc is
\* "after" when the iteration left the loop by break.
loop_iter(g, l) ==
    LET sp     == IF l.da < l.sp THEN l.da ELSE l.sp
        before == Bit((g.accumulator - sp + AccMod) % AccMod, 19)
        after_ == Bit(g.accumulator, 19)
        stop   == /\ l.da < l.sp
                  /\ IF sp <= \h080000
                     THEN before = 1 \/ after_ = 0
                     ELSE before = 1 /\ after_ = 0
    IN  IF stop
        THEN [g |-> g, l |-> [l EXCEPT !.sp = sp, !.n = @ + 1, !.pc = "after"]]
        ELSE [g |-> clock_shift_register(g),
              l |-> [l EXCEPT !.sp = sp, !.da = l.da - sp, !.n = @ + 1]]

\* clock(delta_t) is called: the statements before the loop.
LoopEnter ==
    /\ loop.pc = "idle"
    /\ cycles < limit
    /\ \E delta_t \in LoopDeltas :
          LET g  == voice[0]
              delta_accumulator    == delta_t * g.freq
              accumulator_next     == Low(g.accumulator + delta_accumulator,
                                          AccBits)
              accumulator_bits_set == BitAnd(Not24(g.accumulator),
                                             accumulator_next)
          IN  /\ voice' = [voice EXCEPT
                              ![0].accumulator = accumulator_next,
                              ![0].msb_rising =
                                  (MaskBit(accumulator_bits_set, 23) # 0)]
              /\ loop' = [pc |-> "loop", da |-> delta_accumulator,
                          sp |-> \h100000, n |-> 0,
                          da0 |-> delta_accumulator, g0 |-> g, dt |-> delta_t]
              /\ Did("clock_delta", 0, delta_t)
    /\ UNCHANGED <<limit, start, snap, twin, osc, hist>>

LoopIter ==
    /\ loop.pc = "loop"
    /\ loop.da # 0
    /\ voice' = [voice EXCEPT ![0] = loop_iter(voice[0], loop).g]
    /\ loop' = loop_iter(voice[0], loop).l
    /\ Did("iteration", 0, loop.dt)
    /\ UNCHANGED <<limit, start, snap, twin, osc, hist>>

\* The loop condition fails.
LoopExit ==
    /\ loop.pc = "loop"
    /\ loop.da = 0
    /\ loop' = [loop EXCEPT !.pc = "after"]
    /\ Did("exit", 0, loop.dt)
    /\ UNCHANGED <<voice, limit, start, snap, twin, osc, hist>>

\* The pulse level is set and the call returns.
LoopReturn ==
    /\ loop.pc = "after"
    /\ voice' = [voice EXCEPT ![0].pulse_output = pulse_level(voice[0])]
    /\ loop' = [loop EXCEPT !.pc = "idle"]
    /\ Did("return", 0, loop.dt)
    /\ UNCHANGED <<limit, start, snap, twin, osc, hist>>

NextLoop ==
    \/ LoopEnter
    \/ LoopIter
    \/ LoopExit
    \/ LoopReturn

\* A call that has begun goes on: the code has no suspension point.
SpecLoop ==
    InitLoop /\ [][NextLoop]_vars
       /\ WF_vars(LoopIter) /\ WF_vars(LoopExit) /\ WF_vars(LoopReturn)

\* A finished call leaves the generator that clock_delta computes at once.
LoopAgrees ==
    last.op = "return" => voice[0] = clock_delta(loop.g0, loop.dt)

\* C14: the shift loop of clock(delta_t) is left, after at most
\* floor(delta_t * freq / 2^20) + 1 iterations, and every iteration that
\* stays in the loop makes delta_accumulator strictly smaller.
C14_LoopTerminates ==
    /\ [](loop.n <= loop.da0 \div 2^20 + 1)
    /\ [][loop.pc = "loop" /\ loop'.pc = "loop" => loop'.da < loop.da]_vars
    /\ (loop.pc = "loop") ~> (loop.pc = "idle")

\* A call spanning several shift periods has returned after as many
\* iterations as the bound allows.
C14_Witness ==
    /\ last.op = "return"
    /\ loop.da0 >= 2^21
    /\ loop.n = loop.da0 \div 2^20 + 1
    /\ voice[0].shift_register # loop.g0.shift_register

---------------------------------------------------------------------------
\* Claim checked under SpecRing.

\* C15: after every clock() step of generator v, with test set as well as
\* with test clear, msb_rising is true exactly if accumulator bit 23 went
\* from 0 to 1 in that step (snap[v] is the generator before its clock());
\* a frozen generator therefore never has msb_rising true after a clock()
\* step.
C15_MsbRisingTracksBit23 ==
    \A v \in Voices :
       last.op = "clock" /\ last.v = v
          => (voice[v].msb_rising
                 <=> (Bit(snap[v].accumulator, 23) = 0
                      /\ Bit(voice[v].accumulator, 23) = 1))

---------------------------------------------------------------------------
\* SpecReset: generator 0 with test held set and the shift register reset
\* countdown running, clocked one cycle at a time (LinStep), next to the same
\* start state advanced by a single clock(delta_t) of as many cycles (twin).

\* Longest countdown.
MaxR == 6

ResetRegs == {\h000000, \h2aaaaa, \h555555, \h7ffffe}

InitReset ==
    /\ \E r \in 1 .. MaxR, sr \in ResetRegs :
          voice = Ring([v \in Voices |->
                          [Quiet EXCEPT !.test = 8, !.waveform = 8,
                                        !.freq = \h1000,
                                        !.shift_register = sr,
                                        !.shift_register_reset = r]])
    /\ last = [op |-> "init", v |-> 0, dt |-> 0]
    /\ cycles = 0
    /\ limit = MaxR + 2
    /\ start = voice
    /\ snap = voice
    /\ twin = voice[0]
    /\ osc = OscIdle
    /\ hist = NoHist
    /\ loop = NoLoop

SpecReset == InitReset /\ [][NextLin]_vars

\* C16: with test set and shift_register_reset = R > 0 at the start, after N
\* single clock() steps the shift register is 0x7fffff with
\* shift_register_reset = 0 if N >= R, and untouched with
\* shift_register_reset = R - N if N < R; one clock(N) from the same start
\* leaves the same shift_register and shift_register_reset.
C16_ResetAfterR ==
    cycles >= 1 =>
        LET R == start[0].shift_register_reset
        IN  /\ voice[0].shift_register =
                  IF cycles >= R THEN ShiftMask ELSE start[0].shift_register
            /\ voice[0].shift_register_reset =
                  IF cycles >= R THEN 0 ELSE R - cycles
            /\ twin.shift_register = voice[0].shift_register
            /\ twin.shift_register_reset = voice[0].shift_register_reset

\* The R-th clock() of a countdown of several cycles has just reset the
\* register, and so has the delta clock of R cycles.
C16_Witness ==
    /\ start[0].test # 0
    /\ start[0].shift_register_reset >= 2
    /\ cycles = start[0].shift_register_reset
    /\ start[0].shift_register # ShiftMask
    /\ voice[0].shift_register = ShiftMask
    /\ twin.shift_register = ShiftMask

---------------------------------------------------------------------------
\* SpecNoise: clock_shift_register() applied to generator 0, from shift
\* registers with one bit set, one bit clear, and mixed contents.

\* Number of shifts made in a row.
NoiseSteps == 3

NoiseRegs ==
    {2^k : k \in 0 .. ShiftBits - 1}
       \cup {ShiftMask - 2^k : k \in 0 .. ShiftBits - 1}
       \cup {\h000000, \h7fffff, \h2aaaaa, \h555555, \h420000, \h123456}

InitNoise ==
    /\ \E sr \in NoiseRegs :
          voice = [v \in Voices |->
                     set_noise_output(
                        Configured(Constructed[v],
                                   [Quiet EXCEPT !.waveform = 8,
                                                 !.shift_register = sr]))]
    /\ last = [op |-> "init", v |-> 0, dt |-> 0]
    /\ cycles = 0
    /\ limit = NoiseSteps
    /\ start = voice
    /\ snap = voice
    /\ twin = voice[0]
    /\ osc = OscIdle
    /\ hist = NoHist
    /\ loop = NoLoop

NextNoise == ClockShiftRegister(0)

SpecNoise == InitNoise /\ [][NextNoise]_vars

\* The shift register bits that make up noise_output bits 11 .. 4.
NoiseTaps == <<20, 18, 14, 11, 9, 5, 2, 0>>

\* C17: clock_shift_register turns the register s into the 23-bit value
\* whose bit k is bit k - 1 of s (k = 1 .. 22) and whose bit 0 is bit 22 of s
\* XOR bit 17 of s, and then makes noise_output the 12-bit value whose bits
\* 11 .. 4 are bits 20, 18, 14, 11, 9, 5, 2, 0 of the new register and whose
\* bits 3 .. 0 are 0.
C17_ShiftAndTaps ==
    [][last'.op = "clock_shift_register"
          => LET s  == voice[0].shift_register
                 s1 == voice'[0].shift_register
                 n  == voice'[0].noise_output
             IN  /\ s1 \in 0 .. ShiftMask
                 /\ \A k \in 1 .. ShiftBits - 1 : Bit(s1, k) = Bit(s, k - 1)
                 /\ Bit(s1, 0) = (IF Bit(s, 22) # Bit(s, 17) THEN 1 ELSE 0)
                 /\ n \in 0 .. WaveMask
                 /\ \A i \in 1 .. 8 : Bit(n, 12 - i) = Bit(s1, NoiseTaps[i])
                 /\ n % 2^4 = 0]_vars

\* One shift from a register in which bit 22 and bit 17 differ: the feedback
\* bit is 1 and shows in noise_output bit 4.
C17_Witness ==
    /\ cycles = 1
    /\ last.op = "clock_shift_register"
    /\ Bit(start[0].shift_register, 22) # Bit(start[0].shift_register, 17)
    /\ Bit(voice[0].shift_register, 0) = 1
    /\ Bit(voice[0].noise_output, 4) = 1

---------------------------------------------------------------------------
\* SpecBack: the cycles of SpecCycle (clock(), then set_waveform_output()) on
\* generator 0 with noise alone, noise combinations and pulse selected,
\* running and held by test.

\* Number of steps SpecBack explores.
BackSteps == 8

BackWaveforms == {4, 8, 9, 10, 12, 13}

\* The running profiles of SpecCycle, and a generator held by test
\* (accumulator and shift_pipeline 0, as clock() leaves them).
BackProfiles ==
    CycleProfiles
       \cup {[Quiet EXCEPT !.test = 8, !.freq = \hffff, !.pw = \h080,
                           !.shift_register = \h555555]}

InitBack ==
    /\ \E w \in BackWaveforms, m \in {MOS6581, MOS8580}, p \in BackProfiles :
          voice = Ring([v \in Voices |->
                          IF v = 0
                          THEN [p EXCEPT !.waveform = w, !.sid_model = m]
                          ELSE Quiet])
    /\ last = [op |-> "init", v |-> 0, dt |-> 0]
    /\ cycles = 0
    /\ limit = BackSteps
    /\ start = voice
    /\ snap = voice
    /\ twin = voice[0]
    /\ osc = OscIdle
    /\ hist = [NoHist EXCEPT !.prev = voice[0]]
    /\ loop = NoLoop

SpecBack == InitBack /\ [][NextCycle]_vars

\* Generator g1 is g after its new waveform_output has been written back:
\* each of the register bits 20, 18, 14, 11, 9, 5, 2, 0 is and'ed with output
\* bit 11 .. 4, the other register bits stay, noise_output is and'ed with the
\* output.
WrittenBack(g, g1) ==
    /\ \A i \in 1 .. 8 :
          Bit(g1.shift_register, NoiseTaps[i])
             = Bit(g.shift_register, NoiseTaps[i])
                  * Bit(g1.waveform_output, 12 - i)
    /\ \A k \in 0 .. ShiftBits - 1 :
          (\A i \in 1 .. 8 : NoiseTaps[i] # k)
             => Bit(g1.shift_register, k) = Bit(g.shift_register, k)
    /\ \A k \in 0 .. WaveBits - 1 :
          Bit(g1.noise_output, k)
             = Bit(g.noise_output, k) * Bit(g1.waveform_output, k)

\* Generator g1 has the shift register and the noise output of g.
NotWritten(g, g1) ==
    /\ g1.shift_register = g.shift_register
    /\ g1.noise_output = g.noise_output

\* C18, as stated: set_waveform_output() writes the output back into the
\* shift register exactly when waveform > 8, test is clear and shift_pipeline
\* is 0; in every other case shift_register and noise_output are unchanged.
C18_WriteBackAsStated ==
    [][last'.op = "set_waveform_output"
          => LET g == voice[0]
             IN  IF g.waveform > 8 /\ g.test = 0 /\ g.shift_pipeline = 0
                 THEN WrittenBack(g, voice'[0])
                 ELSE NotWritten(g, voice'[0])]_vars

\* C18, amended: set_waveform_output() writes the output back into the shift
\* register exactly when waveform > 8, test is clear and shift_pipeline is
\* not 1, i.e. also in the cycle in which the pipelined shift has just been
\* armed (shift_pipeline = 2); for waveform <= 8, test set, or
\* shift_pipeline = 1 it leaves shift_register and noise_output unchanged.
C18_WriteBackUnlessShifting ==
    [][last'.op = "set_waveform_output"
          => LET g == voice[0]
             IN  IF g.waveform > 8 /\ g.test = 0 /\ g.shift_pipeline # 1
                 THEN WrittenBack(g, voice'[0])
                 ELSE NotWritten(g, voice'[0])]_vars

\* set_waveform_output() has cleared register bits in the cycle whose clock()
\* armed the shift pipeline (that clock() itself does not touch the
\* register).
C18_Witness ==
    /\ last.op = "set_waveform_output"
    /\ voice[0].waveform > 8
    /\ voice[0].test = 0
    /\ voice[0].shift_pipeline = 2
    /\ voice[0].shift_register # hist.prev.shift_register

---------------------------------------------------------------------------
\* The pulse comparator: 0xfff if the upper 12 bits of the accumulator are
\* at least the pulse width, 0x000 otherwise.
PulseCompare(acc, pw) == IF acc \div 2^12 >= pw THEN \hfff ELSE \h000

\* C19: in single-cycle operation with test clear, from the second cycle on,
\* the pulse level that masks the output of cycle t (pulse_output when
\* set_waveform_output() of cycle t begins) is the comparison
\* (accumulator >> 12) >= pw made on the generator as cycle t - 1 left it:
\* with pulse alone the output of cycle t is that level, and with pulse
\* selected and that level low the output is 0.  Every set_waveform_output()
\* call, for every waveform including 0, ends with pulse_output set to the
\* comparison on the generator as the call leaves it.
C19_PulseDelayedOneCycle ==
    [][last'.op = "set_waveform_output" /\ voice[0].test = 0
          => LET g   == voice[0]
                 g1  == voice'[0]
                 lvl == PulseCompare(hist.prev.accumulator, hist.prev.pw)
             IN  /\ g1.pulse_output = PulseCompare(g1.accumulator, g1.pw)
                 /\ hist.n >= 1
                      => /\ g.pulse_output = lvl
                         /\ g.waveform = 4 => g1.waveform_output = lvl
                         /\ (Bit(g.waveform, 2) = 1 /\ lvl = 0)
                               => g1.waveform_output = 0]_vars

\* Pulse alone, second cycle or later: the output is the level compared in
\* the cycle before, and it differs from the level compared in this cycle.
C19_Witness ==
    /\ last.op = "set_waveform_output"
    /\ hist.n >= 2
    /\ voice[0].test = 0
    /\ voice[0].waveform = 4
    /\ voice[0].waveform_output
          = PulseCompare(hist.prev.accumulator, hist.prev.pw)
    /\ voice[0].waveform_output # voice[0].pulse_output

---------------------------------------------------------------------------
\* C20: on the 8580 with triangle or sawtooth selected, from the second
\* cycle on, set_waveform_output() of cycle t leaves in osc3 the raw table
\* value looked up in cycle t - 1, masked by the pulse and noise masks in
\* force in cycle t, and in tri_saw_pipeline the raw table value looked up in
\* cycle t; waveform_output is made from the lookup of cycle t under the
\* same masks.
C20_TriSawDelayed ==
    [][(/\ last'.op = "set_waveform_output"
        /\ voice[0].sid_model = MOS8580
        /\ BitAnd(voice[0].waveform, 3) # 0
        /\ hist.n >= 1)
          => LET g    == voice[0]
                 g1   == voice'[0]
                 mask == BitAnd(BitOr(g.no_pulse, g.pulse_output),
                                g.no_noise_or_noise_output)
                 now  == BitAnd(hist'.lookup, mask)
             IN  /\ g1.osc3 = BitAnd(hist.lookup, mask)
                 /\ g1.tri_saw_pipeline = hist'.lookup
                 /\ g1.waveform_output
                       = IF BitAnd(g.waveform, \hc) = \hc
                         THEN noise_pulse8580(now) ELSE now]_vars

\* An 8580 sawtooth in its second cycle or later: osc3 shows the lookup of
\* the cycle before, which is not the output of this cycle.
C20_Witness ==
    /\ last.op = "set_waveform_output"
    /\ hist.n >= 2
    /\ voice[0].sid_model = MOS8580
    /\ voice[0].waveform = 2
    /\ voice[0].osc3 = hist.prevLookup
    /\ voice[0].tri_saw_pipeline = hist.lookup
    /\ voice[0].waveform_output = hist.lookup
    /\ hist.prevLookup # hist.lookup

---------------------------------------------------------------------------
\* C21: on the 6581, after every set_waveform_output() and
\* set_waveform_output(delta_t) call, for every waveform selector including
\* 0, osc3 equals waveform_output; a difference between the two is found on
\* the 8580 only.
C21_Osc3IsOutputOn6581 ==
    (/\ last.op \in {"set_waveform_output", "set_waveform_output_delta"}
     /\ voice[0].sid_model = MOS6581)
       => voice[0].osc3 = voice[0].waveform_output

\* A 6581 sawtooth after set_waveform_output(): osc3 is the output just
\* computed, not the value waiting in tri_saw_pipeline.
C21_Witness ==
    /\ last.op = "set_waveform_output"
    /\ voice[0].sid_model = MOS6581
    /\ BitAnd(voice[0].waveform, 3) # 0
    /\ voice[0].waveform_output # 0
    /\ voice[0].osc3 = voice[0].waveform_output
    /\ start[0].tri_saw_pipeline # voice[0].waveform_output

---------------------------------------------------------------------------
\* C22: set_waveform_output() and set_waveform_output(delta_t) change the
\* accumulator only on the 6581 with sawtooth selected together with at
\* least one other waveform bit, and then only by clearing bit 23 when bit 11
\* of the new waveform_output is 0; bit 23 is never set, bits 22 .. 0 never
\* change, and on the 8580 or with any other selector the accumulator is
\* unchanged.
C22_OnlyTopBitDrivenLow ==
    [][last'.op \in {"set_waveform_output", "set_waveform_output_delta"}
          => LET g  == voice[0]
                 g1 == voice'[0]
                 combined == /\ g.sid_model = MOS6581
                             /\ Bit(g.waveform, 1) = 1
                             /\ g.waveform # 2
             IN  g1.accumulator
                    = IF combined /\ Bit(g.accumulator, 23) = 1
                         /\ Bit(g1.waveform_output, 11) = 0
                      THEN g.accumulator - 2^23
                      ELSE g.accumulator]_vars

\* A 6581 sawtooth combination has pulled accumulator bit 23 low.
C22_Witness ==
    /\ cycles = 1
    /\ last.op \in {"set_waveform_output", "set_waveform_output_delta"}
    /\ voice[0].sid_model = MOS6581
    /\ Bit(voice[0].waveform, 1) = 1
    /\ Bit(voice[0].waveform_output, 11) = 0
    /\ Bit(start[0].accumulator, 23) = 1
    /\ voice[0].accumulator = start[0].accumulator - 2^23

---------------------------------------------------------------------------
\* SpecMix: single-cycle clock() and clock(delta_t) calls mixed in any order
\* on generator 0, noise selected, test clear.  hist.rose1 / rose2 tell
\* whether bit 19 rose in the last clock() and in the one before, counting
\* only clock() calls made since the last clock(delta_t).

\* Number of calls SpecMix explores.
MixSteps == 5

\* The delta_t arguments of SpecMix.
MixDeltas == {1, 3}

\* Accumulators one and two clock() calls below a rise of bit 19, and one
\* call below with a frequency too small for a second rise.
MixProfiles ==
    {[Quiet EXCEPT !.waveform = 8, !.accumulator = \h07f000, !.freq = \hffff],
     [Quiet EXCEPT !.waveform = 8, !.accumulator = \h070000, !.freq = \h8000,
                   !.shift_register = \h2aaaaa],
     [Quiet EXCEPT !.waveform = 8, !.accumulator = \h07ffff, !.freq = \h0001,
                   !.shift_register = \h555555]}

InitMix ==
    /\ \E p \in MixProfiles :
          voice = Ring([v \in Voices |-> IF v = 0 THEN p ELSE Quiet])
    /\ last = [op |-> "init", v |-> 0, dt |-> 0]
    /\ cycles = 0
    /\ limit = MixSteps
    /\ start = voice
    /\ snap = voice
    /\ twin = voice[0]
    /\ osc = OscIdle
    /\ hist = [NoHist EXCEPT !.prev = voice[0]]
    /\ loop = NoLoop

MixClock ==
    /\ cycles < limit
    /\ LET g  == voice[0]
           g1 == clock(g)
       IN  /\ voice' = [voice EXCEPT ![0] = g1]
           /\ hist' = [hist EXCEPT
                          !.prev = g,
                          !.rose2 = hist.rose1,
                          !.rose1 = (Bit(g.accumulator, 19) = 0
                                     /\ Bit(g1.accumulator, 19) = 1)]
    /\ Did("clock", 0, 1)
    /\ UNCHANGED <<limit, start, snap, twin, osc, loop>>

MixClockDelta ==
    /\ cycles < limit
    /\ \E dt \in MixDeltas :
          /\ voice' = [voice EXCEPT ![0] = clock_delta(@, dt)]
          /\ hist' = [hist EXCEPT !.prev = voice[0],
                                  !.rose1 = FALSE, !.rose2 = FALSE]
          /\ Did("clock_delta", 0, dt)
    /\ UNCHANGED <<limit, start, snap, twin, osc, loop>>

NextMix ==
    \/ MixClock
    \/ MixClockDelta

SpecMix == InitMix /\ [][NextMix]_vars

\* C23: a shift left pending by clock() is lost when clock(delta_t) runs:
\* after a clock(delta_t) call shift_pipeline is 0, and a later clock() call
\* shifts the register only for a rise of bit 19 seen by the clock() call two
\* before it, both made after the clock(delta_t) call.
C23_PendingShiftLost ==
    /\ [](last.op = "clock_delta" => voice[0].shift_pipeline = 0)
    /\ [][(/\ last'.op = "clock"
           /\ voice'[0].shift_register # voice[0].shift_register)
             => hist.rose2]_vars

---------------------------------------------------------------------------
\* SpecDecay: generator 0 driven without end through the cycles of
\* SIDOsc::next (clock(), synchronize(), set_waveform_output()), a noise
\* combination held selected, test clear.  The frequencies divide 2^24, so
\* the accumulator returns to its value after a few hundred cycles.

\* Noise with triangle, with sawtooth, with pulse, with pulse and triangle.
DecayWaveforms == {9, 10, 12, 13}
DecayFreqs == {\h8000, \hc000}
DecayPws == {\h800}

InitDecay ==
    /\ \E w \in DecayWaveforms, m \in {MOS6581, MOS8580},
          f \in DecayFreqs, pw \in DecayPws :
          voice = Ring([v \in Voices |->
                          IF v = 0
                          THEN [Quiet EXCEPT !.waveform = w, !.sid_model = m,
                                             !.freq = f, !.pw = pw]
                          ELSE Quiet])
    /\ last = [op |-> "init", v |-> 0, dt |-> 0]
    /\ cycles = 0
    /\ limit = 0
    /\ start = voice
    /\ snap = voice
    /\ twin = voice[0]
    /\ osc = OscIdle
    /\ hist = NoHist
    /\ loop = NoLoop

DecayClock ==
    /\ last.op \in {"init", "set_waveform_output"}
    /\ voice' = [voice EXCEPT ![0] = clock(@)]
    /\ last' = [op |-> "clock", v |-> 0, dt |-> 1]
    /\ UNCHANGED <<cycles, limit, start, snap, twin, osc, hist, loop>>

DecaySynchronize ==
    /\ last.op = "clock"
    /\ voice' = synchronize(voice, 0)
    /\ last' = [op |-> "synchronize", v |-> 0, dt |-> 0]
    /\ UNCHANGED <<cycles, limit, start, snap, twin, osc, hist, loop>>

DecaySetWaveformOutput ==
    /\ last.op = "synchronize"
    /\ \E tv \in TableInputs(voice[0]) :
          voice' = [voice EXCEPT
                      ![0] = set_waveform_output(@, SourceAcc(0), tv)]
    /\ last' = [op |-> "set_waveform_output", v |-> 0, dt |-> 1]
    /\ UNCHANGED <<cycles, limit, start, snap, twin, osc, hist, loop>>

NextDecay ==
    \/ DecayClock
    \/ DecaySynchronize
    \/ DecaySetWaveformOutput

\* The call that follows the last one in the cycle.  Every step of NextDecay
\* is such a step, and one is possible in every state.
DecayAdvance ==
    last' = CASE last.op = "clock" ->
                    [op |-> "synchronize", v |-> 0, dt |-> 0]
              [] last.op = "synchronize" ->
                    [op |-> "set_waveform_output", v |-> 0, dt |-> 1]
              [] OTHER ->
                    [op |-> "clock", v |-> 0, dt |-> 1]

\* The audio callback keeps running the cycle: the next call is always made.
SpecDecay ==
    /\ InitDecay
    /\ [][NextDecay]_vars
    /\ WF_last(DecayAdvance)

---------------------------------------------------------------------------
\* SpecPerm: cycles in which the three generators are clocked (0, 1, 2) and
\* then synchronized in any order.  osc.clocked / osc.synced hold the
\* generators handled in the current cycle, snap the ring as the clock pass
\* left it.

\* Number of steps SpecPerm explores.
PermSteps == 12

InitPerm ==
    /\ \E a \in [Voices -> RingAccs], c \in [Voices -> RingControls] :
          voice = [v \in Voices |->
                     writeCONTROL_REG(
                        Configured(Constructed[v],
                                   [Quiet EXCEPT !.accumulator = a[v],
                                                 !.freq = \h8000,
                                                 !.pw = \h800]),
                        c[v])]
    /\ last = [op |-> "init", v |-> 0, dt |-> 0]
    /\ cycles = 0
    /\ limit = PermSteps
    /\ start = voice
    /\ snap = voice
    /\ twin = voice[0]
    /\ osc = OscIdle
    /\ hist = NoHist
    /\ loop = NoLoop

PermClock(v) ==
    /\ cycles < limit
    /\ IF v = 0
       THEN last.op = "init" \/ osc.synced = Voices
       ELSE last.op = "clock" /\ last.v = v - 1
    /\ voice' = [voice EXCEPT ![v] = clock(@)]
    /\ snap' = voice'
    /\ osc' = [osc EXCEPT !.clocked = IF v = 0 THEN {0} ELSE @ \cup {v},
                          !.synced = {}]
    /\ Did("clock", v, 1)
    /\ UNCHANGED <<limit, start, twin, hist, loop>>

PermSynchronize(v) ==
    /\ cycles < limit
    /\ osc.clocked = Voices
    /\ v \notin osc.synced
    /\ voice' = synchronize(voice, v)
    /\ osc' = [osc EXCEPT !.synced = @ \cup {v}]
    /\ Did("synchronize", v, 0)
    /\ UNCHANGED <<limit, start, snap, twin, hist, loop>>

NextPerm ==
    \E v \in Voices :
       \/ PermClock(v)
       \/ PermSynchronize(v)

SpecPerm == InitPerm /\ [][NextPerm]_vars

\* The ring vs after synchronize() on generator 0, then 1, then 2.
SyncedInOrder(vs) == synchronize(synchronize(synchronize(vs, 0), 1), 2)

\* C25: once all three generators have been clocked and all three have been
\* synchronized, in whichever order, the three accumulators are those that
\* the order 0, 1, 2 gives: the result is the same for all 6 orders.
C25_SyncOrderFree ==
    osc.synced = Voices
       => \A v \in Voices :
             voice[v].accumulator = SyncedInOrder(snap)[v].accumulator

\* The generators were synchronized in an order that does not end with
\* generator 2; one accumulator was reset, another was not.
C25_Witness ==
    /\ osc.synced = Voices
    /\ last.op = "synchronize"
    /\ last.v # 2
    /\ \E v \in Voices : voice[v].accumulator = 0 /\ snap[v].accumulator # 0
    /\ \E v \in Voices : voice[v].accumulator # 0

---------------------------------------------------------------------------
\* SpecTaps: clock(), clock_shift_register(), write_shift_register(),
\* reset_shift_register() and set_waveform_output() on generator 0 in any
\* order, starting right after a reset_shift_register().

\* Number of calls SpecTaps explores.
TapSteps == 4

TapWaveforms == {0, 8, 9, 10, 12, 15}

InitTaps ==
    /\ \E w \in TapWaveforms, m \in {MOS6581, MOS8580} :
          voice = [v \in Voices |->
                     reset_shift_register(
                        Configured(Constructed[v],
                                   IF v = 0
                                   THEN [Quiet EXCEPT !.waveform = w,
                                                      !.sid_model = m,
                                                      !.accumulator = \h07f000,
                                                      !.freq = \hffff,
                                                      !.pw = \h080,
                                                      !.waveform_output = \h5a0]
                                   ELSE Quiet))]
    /\ last = [op |-> "init", v |-> 0, dt |-> 0]
    /\ cycles = 0
    /\ limit = TapSteps
    /\ start = voice
    /\ snap = voice
    /\ twin = voice[0]
    /\ osc = OscIdle
    /\ hist = NoHist
    /\ loop = NoLoop

NextTaps ==
    \/ Clock(0)
    \/ ClockShiftRegister(0)
    \/ WriteShiftRegister(0)
    \/ ResetShiftRegister(0)
    \/ SetWaveformOutput(0)

SpecTaps == InitTaps /\ [][NextTaps]_vars

\* C26: in every state reached from a reset_shift_register() by clock(),
\* clock_shift_register(), write_shift_register(), reset_shift_register()
\* and set_waveform_output(), noise_output is the 12-bit value whose bits
\* 11 .. 4 are bits 20, 18, 14, 11, 9, 5, 2, 0 of shift_register and whose
\* bits 3 .. 0 are 0, and no_noise_or_noise_output is no_noise | noise_output.
C26_NoiseOutputIsTaps ==
    LET g == voice[0]
    IN  /\ g.noise_output \in 0 .. WaveMask
        /\ \A i \in 1 .. 8 :
              Bit(g.noise_output, 12 - i) = Bit(g.shift_register, NoiseTaps[i])
        /\ g.noise_output % 2^4 = 0
        /\ g.no_noise_or_noise_output \in 0 .. WaveMask
        /\ \A k \in 0 .. WaveBits - 1 :
              Bit(g.no_noise_or_noise_output, k) = 1
                 <=> (Bit(g.no_noise, k) = 1 \/ Bit(g.noise_output, k) = 1)

\* Write-back has cleared some tap bits and a shift has followed: the noise
\* output is neither all taps nor none.
C26_Witness ==
    /\ last.op \in {"clock", "clock_shift_register"}
    /\ voice[0].waveform > 8
    /\ voice[0].shift_register # LfsrStep(ShiftMask)
    /\ voice[0].shift_register # ShiftMask
    /\ voice[0].noise_output # 0
    /\ voice[0].noise_output # \hff0
    /\ Bit(voice[0].shift_register, 22) = 1

---------------------------------------------------------------------------
\* SpecZero: clock(), clock(delta_t), clock_shift_register(),
\* write_shift_register(), set_waveform_output() and reset_shift_register()
\* on generator 0 in any order, starting with a shift register that
\* write-back has emptied.

\* Number of calls SpecZero explores.
ZeroSteps == 4

\* A running generator about to see bit 19 rise, one with a shift about to
\* be made, and one held by test with the register reset two cycles away.
ZeroProfiles ==
    {[Quiet EXCEPT !.accumulator = \h07f000, !.freq = \hffff, !.pw = \h080,
                   !.shift_register = 0],
     [Quiet EXCEPT !.accumulator = \h090000, !.freq = \h8000, !.pw = \h800,
                   !.shift_register = 0, !.shift_pipeline = 1],
     [Quiet EXCEPT !.test = 8, !.freq = \h1000, !.shift_register = 0,
                   !.shift_register_reset = 2]}

ZeroWaveforms == {0, 8, 9, 12}

InitZero ==
    /\ \E w \in ZeroWaveforms, m \in {MOS6581, MOS8580}, p \in ZeroProfiles :
          voice = Ring([v \in Voices |->
                          IF v = 0
                          THEN [p EXCEPT !.waveform = w, !.sid_model = m]
                          ELSE Quiet])
    /\ last = [op |-> "init", v |-> 0, dt |-> 0]
    /\ cycles = 0
    /\ limit = ZeroSteps
    /\ start = voice
    /\ snap = voice
    /\ twin = voice[0]
    /\ osc = OscIdle
    /\ hist = NoHist
    /\ loop = NoLoop

NextZero ==
    \/ Clock(0)
    \/ ClockDelta(0)
    \/ ClockShiftRegister(0)
    \/ WriteShiftRegister(0)
    \/ SetWaveformOutput(0)
    \/ ResetShiftRegister(0)

SpecZero == InitZero /\ [][NextZero]_vars

\* The call l made on generator g runs reset_shift_register(): the call
\* itself, or a clock under test in which the reset countdown runs out.
ResetRuns(g, l) ==
    \/ l.op = "reset_shift_register"
    \/ /\ g.test # 0
       /\ g.shift_register_reset > 0
       /\ \/ l.op = "clock" /\ g.shift_register_reset = 1
          \/ l.op = "clock_delta" /\ g.shift_register_reset <= l.dt

\* C27: a shift register of 0 stays 0, and noise_output stays 0, under
\* clock(), clock(delta_t), clock_shift_register(), write_shift_register()
\* and set_waveform_output(), as long as reset_shift_register() does not run
\* (called directly, or by a clock under test when the reset countdown ends).
C27_ZeroAbsorbing ==
    [][(voice[0].shift_register = 0 /\ ~ResetRuns(voice[0], last'))
          => /\ voice'[0].shift_register = 0
             /\ voice'[0].noise_output = 0]_vars

\* The register was 0 from the start, no reset has run, and the last clock()
\* made a pipelined shift.
C27_Witness ==
    /\ cycles >= 2
    /\ start[0].shift_register = 0
    /\ start[0].shift_pipeline = 1
    /\ last.op = "clock"
    /\ voice[0].shift_pipeline = 0
    /\ voice[0].shift_register = 0
    /\ voice[0].noise_output = 0

---------------------------------------------------------------------------
\* SpecLfsr: pure noise (waveform 8, no write-back): clock_shift_register()
\* applied again and again to generator 0, from the reset value and from the
\* other non-zero registers of NoiseRegs.

\* Number of shifts made in a row.
LfsrSteps == 1000

LfsrRegs == NoiseRegs \ {0}

InitLfsr ==
    /\ \E sr \in LfsrRegs :
          voice = [v \in Voices |->
                     set_noise_output(
                        Configured(Constructed[v],
                                   [Quiet EXCEPT !.waveform = 8,
                                                 !.shift_register = sr]))]
    /\ last = [op |-> "init", v |-> 0, dt |-> 0]
    /\ cycles = 0
    /\ limit = LfsrSteps
    /\ start = voice
    /\ snap = voice
    /\ twin = voice[0]
    /\ osc = OscIdle
    /\ hist = NoHist
    /\ loop = NoLoop

NextLfsr == ClockShiftRegister(0)

SpecLfsr == InitLfsr /\ [][NextLfsr]_vars

\* The register that one shift turns into s1: bits 22 .. 1 of s1 moved one
\* place down, bit 22 restored from the feedback bit (bit 0 of s1) and the
\* old bit 17 (bit 18 of s1).
Unshift(s1) ==
    s1 \div 2 + (IF Bit(s1, 0) # Bit(s1, 18) THEN 2^22 ELSE 0)

\* C28: under clock_shift_register steps alone the shift register, started
\* at the reset value 0x7fffff (or at any other non-zero value), never
\* becomes 0; every shift can be undone (Unshift gives back the register
\* shifted), so clock_shift_register is injective, and it maps non-zero
\* registers to non-zero registers.
C28_NoiseNeverLocksUp ==
    /\ [](voice[0].shift_register # 0)
    /\ [][last'.op = "clock_shift_register"
             => Unshift(voice'[0].shift_register) = voice[0].shift_register]_vars

\* As many shifts from the reset value as the register has bits: the
\* register is neither 0 nor back at the reset value.
C28_Witness ==
    /\ cycles = ShiftBits
    /\ last.op = "clock_shift_register"
    /\ start[0].shift_register = ShiftMask
    /\ voice[0].shift_register # 0
    /\ voice[0].shift_register # ShiftMask

---------------------------------------------------------------------------
\* SpecLock: SIDOsc::next running on three generators that are in the same
\* state (the constructor's next(1) has been made), with accumulators close
\* below a rise of the MSB and of bit 19.

\* Number of steps SpecLock explores.
LockSteps == 30

LockProfiles ==
    {[Quiet EXCEPT !.waveform = 1, !.accumulator = \h7f8000],
     [Quiet EXCEPT !.waveform = 2, !.accumulator = \h7ff000,
                   !.shift_register = \h2aaaaa],
     [Quiet EXCEPT !.waveform = 8, !.accumulator = \h07f000,
                   !.shift_register = \h555555]}

InitLock ==
    /\ \E p \in LockProfiles :
          voice = [v \in Voices |-> Configured(Constructed[v], p)]
    /\ last = [op |-> "init", v |-> 0, dt |-> 0]
    /\ cycles = 0
    /\ limit = LockSteps
    /\ start = voice
    /\ snap = voice
    /\ twin = voice[0]
    /\ osc = [OscIdle EXCEPT !.calls = 1]
    /\ hist = NoHist
    /\ loop = NoLoop

SpecLock == InitLock /\ [][NextOsc]_vars

\* No sample is half made: next() is between two samples or not running.
BetweenSamples == osc.pc \in {"idle", "sample"}

\* C29: in SIDOsc the three generators, started in the same state, have
\* pairwise equal accumulators, shift registers and waveform outputs after
\* every processed sample, and no synchronize() call changes an accumulator.
C29_Lockstep ==
    /\ [](BetweenSamples
            => \A v, w \in Voices :
                  /\ voice[v].accumulator = voice[w].accumulator
                  /\ voice[v].shift_register = voice[w].shift_register
                  /\ voice[v].waveform_output = voice[w].waveform_output)
    /\ [][osc.pc = "synchronize"
             => \A v \in Voices :
                   voice'[v].accumulator = voice[v].accumulator]_vars

\* A sample in which the MSB of every accumulator rose has been processed:
\* the accumulators are equal and none was reset.
C29_Witness ==
    /\ BetweenSamples
    /\ last.op = "output"
    /\ \A v \in Voices : voice[v].msb_rising
    /\ \A v \in Voices : voice[v].accumulator = voice[0].accumulator
    /\ voice[0].accumulator >= 2^23
    /\ voice[0].waveform_output # 0

---------------------------------------------------------------------------
\* C30 (checked under SpecOsc): a call of next() writes the control register
\* to the three voices if and only if the gate input, thresholded at 0.5,
\* differs from the gate remembered from the call before: then every
\* generator takes the waveform input as its selector and the gate is
\* remembered; otherwise no generator changes at all, whatever the waveform
\* input is, so the selector stays that of the last gate change.
C30_WriteOnGateChange ==
    [][last'.op = "next"
          => LET gate == osc'.gateInput > GateThreshold
             IN  IF gate # osc.mPrevGate
                 THEN /\ \A v \in Voices :
                            voice'[v].waveform = osc'.waveformType % 2^4
                      /\ osc'.mPrevGate = gate
                 ELSE /\ voice' = voice
                      /\ osc'.mPrevGate = osc.mPrevGate]_vars

\* A call with the gate still high and another waveform input: the
\* generators keep the selector written when the gate went high.
C30_Witness ==
    /\ last.op = "next"
    /\ osc.mPrevGate
    /\ osc.gateInput > GateThreshold
    /\ cycles > 1
    /\ \A v \in Voices : voice[v].waveform \in OscWaveforms
    /\ \A v \in Voices : voice[v].waveform # osc.waveformType

===========================================================================
